---- MODULE Spec2Model ----
(***************************************************************************)
(* State-machine model of the backgammon session server.                   *)
(*                                                                         *)
(* Two server implementations are modelled over the same state:            *)
(*   impl = "server"    src/app/server/server.js  (invite-only server)     *)
(*   impl = "part_000"  src/unnamed/part_000      (server with PLAY_RANDOM)*)
(* lib/model.js, lib/rules/*.js and queue_manager.js are not part of the   *)
(* sources; the operators that stand for them follow the written           *)
(* specification (sections 3, 4.1, 4.2, 4.4) and are marked as such.       *)
(*                                                                         *)
(* Strings that the code transforms (display names, slugs) are sequences   *)
(* of one-character strings.  null, undefined and '' are all the empty     *)
(* sequence where the code only tests truthiness; object references        *)
(* (players, matches) are ids, 0 standing for null.                        *)
(***************************************************************************)
EXTENDS Naturals, Sequences, FiniteSets

\* ------------------------------------------------------------------ bounds

NumSockets == 3      \* connections that send requests
MaxPlayers == 3      \* Player objects ever created
MaxMatches == 2      \* Match objects ever created
MaxMoveSeq == 3      \* accepted moves per game
MaxScore == 4        \* cap on a color's score
MaxGames == 6        \* Game objects per match

\* ------------------------------------------------------- rule parameters

StartPips == 2       \* distance every color has to travel in a new game
MaxDie == 2          \* faces of a die
MatchLength == 3     \* Match.length: points needed to win the match

Null == 0            \* a null / undefined object reference

Sockets == 1..NumSockets
Colors == {"WHITE", "BLACK"}
RuleBgCasual == "RuleBgCasual"
RuleBgGulbara == "RuleBgGulbara"
AnyRule == ".*"

\* ----------------------------------------------------------------- strings

UpperCase == <<"A","B","C","D","E","F","G","H","I","J","K","L","M",
               "N","O","P","Q","R","S","T","U","V","W","X","Y","Z">>
LowerCase == <<"a","b","c","d","e","f","g","h","i","j","k","l","m",
               "n","o","p","q","r","s","t","u","v","w","x","y","z">>
Digits == {"0","1","2","3","4","5","6","7","8","9"}
Whitespace == {" "}

Range(f) == {f[i] : i \in DOMAIN f}
UpperChars == Range(UpperCase)
LowerChars == Range(LowerCase)

\* String.prototype.toLowerCase, one character
LowerOf == [c \in UpperChars |->
              LowerCase[CHOOSE i \in 1..26 : UpperCase[i] = c]]
LowerChar(c) == IF c \in UpperChars THEN LowerOf[c] ELSE c

toLowerCase(s) == [i \in 1..Len(s) |-> LowerChar(s[i])]

RECURSIVE trimLeft(_)
trimLeft(s) ==
  IF s # <<>> /\ Head(s) \in Whitespace THEN trimLeft(Tail(s)) ELSE s

RECURSIVE trimRight(_)
trimRight(s) ==
  IF s # <<>> /\ s[Len(s)] \in Whitespace
  THEN trimRight(SubSeq(s, 1, Len(s) - 1))
  ELSE s

\* String.prototype.trim
trim(s) == trimRight(trimLeft(s))

SlugChars == LowerChars \cup Digits
IsSlugChar(c) == c \in SlugChars

\* s.replace(/[^a-z0-9]+/g, '-'): every maximal run of other characters
\* becomes one dash
RECURSIVE dashRuns(_)
dashRuns(s) ==
  IF s = <<>> THEN <<>>
  ELSE IF IsSlugChar(Head(s)) THEN <<Head(s)>> \o dashRuns(Tail(s))
  ELSE IF Len(s) > 1 /\ ~IsSlugChar(s[2]) THEN dashRuns(Tail(s))
  ELSE <<"-">> \o dashRuns(Tail(s))

RECURSIVE stripLeftDashes(_)
stripLeftDashes(s) ==
  IF s # <<>> /\ Head(s) = "-" THEN stripLeftDashes(Tail(s)) ELSE s

RECURSIVE stripRightDashes(_)
stripRightDashes(s) ==
  IF s # <<>> /\ s[Len(s)] = "-"
  THEN stripRightDashes(SubSeq(s, 1, Len(s) - 1))
  ELSE s

\* s.replace(/^-+|-+$/g, '')
stripDashes(s) == stripRightDashes(stripLeftDashes(s))

\* the two replace calls of iccjSlugify, on the trimmed lower-case string
dashed(t) == IF t = <<>> THEN <<>> ELSE stripDashes(dashRuns(t))

slugify(s) == dashed(toLowerCase(trim(s)))

DigitChars == <<"0","1","2","3","4","5","6","7","8","9">>

\* 'Player ' + player.id  /  'Match ' + match.id   (ids below 10)
PlayerDefaultName(id) == <<"P","l","a","y","e","r"," ">> \o <<DigitChars[id + 1]>>
MatchDefaultName(id) == <<"M","a","t","c","h"," ">> \o <<DigitChars[id + 1]>>

\* the display names and host slugs that clients send
NameInputs == { <<"A","l","i","c","e"," ">> }
SlugInputs == { <<"A","L","I","C","E">> }

\* slugify is evaluated once for the strings it is usually called on
GivenStrings ==
  NameInputs \cup SlugInputs \cup {trim(n) : n \in NameInputs}
    \cup {PlayerDefaultName(i) : i \in 1..9}
SlugOfGiven == [s \in GivenStrings |-> slugify(s)]
KnownStrings == GivenStrings \cup Range(SlugOfGiven)
SlugOfKnown == [s \in KnownStrings |-> slugify(s)]

iccjSlugify(s) == IF s \in DOMAIN SlugOfKnown THEN SlugOfKnown[s] ELSE slugify(s)

\* if (h && g) return h + '-vs-' + g; return h || g || ''
vsSlug(h, g) ==
  IF h # <<>> /\ g # <<>> THEN h \o <<"-","v","s","-">> \o g
  ELSE IF h # <<>> THEN h ELSE g

iccjMatchSlug(hostName, guestName) ==
  vsSlug(iccjSlugify(hostName), iccjSlugify(guestName))

DisplayChars == UpperChars \cup LowerChars \cup Digits \cup {" ", ".", "'", "-"}
IsDisplayChar(c) == c \in DisplayChars

RECURSIVE keepDisplayChars(_)
keepDisplayChars(s) ==
  IF s = <<>> THEN <<>>
  ELSE IF IsDisplayChar(Head(s)) THEN <<Head(s)>> \o keepDisplayChars(Tail(s))
  ELSE keepDisplayChars(Tail(s))

\* name.replace(/\s+/g, ' ')
RECURSIVE collapseSpaces(_)
collapseSpaces(s) ==
  IF s = <<>> THEN <<>>
  ELSE IF Head(s) \in Whitespace
       THEN IF Len(s) > 1 /\ s[2] \in Whitespace
            THEN collapseSpaces(Tail(s))
            ELSE <<" ">> \o collapseSpaces(Tail(s))
  ELSE <<Head(s)>> \o collapseSpaces(Tail(s))

MaxNameLen == 40

\* if (name.length > 40) name = name.slice(0, 40).trim()
clipName(u) ==
  IF Len(u) > MaxNameLen THEN trim(SubSeq(u, 1, MaxNameLen)) ELSE u

\* the cleanup of iccjSafeDisplayName, on the trimmed name
cleanName(t) ==
  IF t = <<>> THEN <<>> ELSE clipName(trim(collapseSpaces(keepDisplayChars(t))))

iccjSafeDisplayName(name) == cleanName(trim(name))

VsName(hostName, guestName) == hostName \o <<" ","v","s"," ">> \o guestName

\* ------------------------------------------------------------------- state

VARIABLES
  impl,      \* which server implementation runs
  players,   \* Server.players: sequence of Player, players[i].id = i
  matches,   \* Server.matches: sequence of Match, matches[i].id = i
  socks,     \* per connection: socket.player, socket.match, socket.rule
  queues,    \* QueueManager: rule name -> waiting player ids (part_000)
  startup    \* restoreServer at startup: the store, the two cursors and
             \* the registries as they fill (Running once it is over)

vars == <<impl, players, matches, socks, queues, startup>>

\* a reference to a Player object: linked when it is the object of the
\* player registry, else a copy that came embedded in a stored match
NoPlayer == [id |-> 0, linked |-> FALSE]
Embedded(id) == [id |-> id, linked |-> FALSE]
Canonical(id) == [id |-> id, linked |-> TRUE]

\* startup of a server that is up and serving
Running ==
  [pc |-> "running", db |-> [players |-> <<>>, matches |-> <<>>],
   playersCursor |-> <<>>, matchesCursor |-> <<>>,
   players |-> <<>>, matches |-> <<>>]

\* The server state as one value: the handlers below are functions from a
\* server state and a request to an outcome, i.e. the state after the
\* request together with the reply and the events it sends.
Cur == [impl |-> impl, players |-> players, matches |-> matches,
        socks |-> socks, queues |-> queues]

\* ------------------------------------------- lib/model.js (not in sources)

OtherColor(c) == IF c = "WHITE" THEN "BLACK" ELSE "WHITE"

\* State of a new game: every color StartPips away from bearing off
NewState == [pips |-> [c \in Colors |-> StartPips]]

\* Game.createNew: id n within its match
NewGame(n) ==
  [id |-> n, hasStarted |-> FALSE, turnPlayer |-> Null, turnNumber |-> 0,
   turnDice |-> <<>>, moveSequence |-> 0, state |-> NewState,
   previousState |-> <<>>, previousTurnDice |-> <<>>]

\* Match.createNew(rule) followed by the handler's metadata assignments
NewMatch(id, ruleName) ==
  [id |-> id, host |-> Null, guest |-> Null, players |-> <<>>,
   ruleName |-> ruleName, hostName |-> <<>>, hostSlug |-> <<>>,
   guestName |-> <<>>, slug |-> <<>>, name |-> <<>>,
   score |-> [c \in Colors |-> 0], length |-> MatchLength,
   isOver |-> FALSE, currentGame |-> NewGame(1)]

\* Player.createNew
NewPlayer(id) ==
  [id |-> id, name |-> <<>>, currentMatch |-> Null, currentPieceType |-> "",
   socketID |-> Null]

\* Match.addHostPlayer / Match.addGuestPlayer
addHostPlayer(match, pid) ==
  [match EXCEPT !.host = pid, !.players = Append(@, pid)]
addGuestPlayer(match, pid) ==
  [match EXCEPT !.guest = pid, !.players = Append(@, pid)]

\* Match.isHost(match, player)
isHost(match, pid) == match.host # Null /\ match.host = pid

\* Match.createNewGame(match, rule)
createNewGame(match) ==
  [match EXCEPT !.currentGame = NewGame(match.currentGame.id + 1)]

\* Game.diceWasRolled
diceWasRolled(game) == game.turnDice # <<>>

\* Game.snapshotState: an independent copy of the board and of the dice
snapshotState(game) ==
  [game EXCEPT !.previousState = <<game.state>>,
               !.previousTurnDice = game.turnDice]

\* Game.restoreState: board and dice go back to the copy taken at the roll
restoreState(game) ==
  IF game.previousState = <<>> THEN game
  ELSE [game EXCEPT !.state = game.previousState[1],
                    !.turnDice = game.previousTurnDice]

\* ------------------------------------- lib/rules/rule.js (not in sources)

\* the dice a roll can show (the order of the two dice plays no part)
DiceOutcomes == {v \in (1..MaxDie) \X (1..MaxDie) : v[1] <= v[2]}

\* rule.rollDice: doubles are played four times
DiceOf(v) ==
  [values |-> v,
   movesLeft |-> IF v[1] = v[2] THEN <<v[1], v[1], v[1], v[1]>> ELSE v]

InSeq(x, s) == \E i \in 1..Len(s) : s[i] = x

RECURSIVE RemoveFirst(_, _)
RemoveFirst(s, x) ==
  IF s = <<>> THEN <<>>
  ELSE IF Head(s) = x THEN Tail(s)
  ELSE <<Head(s)>> \o RemoveFirst(Tail(s), x)

\* rule.getMoveActions(state, piece, steps): empty when not allowed
getMoveActions(state, piece, steps) ==
  IF piece \in Colors /\ steps >= 1 /\ steps <= state.pips[piece]
  THEN <<[piece |-> piece, from |-> state.pips[piece],
          to |-> state.pips[piece] - steps]>>
  ELSE <<>>

RECURSIVE applyMoveActions(_, _)
applyMoveActions(state, actions) ==
  IF actions = <<>> THEN state
  ELSE applyMoveActions(
         [state EXCEPT !.pips[Head(actions).piece] = Head(actions).to],
         Tail(actions))

\* rule.markAsPlayed(game, steps)
markAsPlayed(game, steps) ==
  [game EXCEPT !.turnDice =
     <<[@[1] EXCEPT !.movesLeft = RemoveFirst(@, steps)]>>]

IsTurn(game, player) ==
  game.hasStarted /\ game.turnPlayer # Null /\ game.turnPlayer = player.id

\* rule.validateMove(game, player, piece, steps)
validateMove(game, player, piece, steps) ==
  /\ IsTurn(game, player)
  /\ diceWasRolled(game)
  /\ piece = player.currentPieceType
  /\ InSeq(steps, game.turnDice[1].movesLeft)
  /\ getMoveActions(game.state, piece, steps) # <<>>

\* rule.validateConfirm(game, player): no die left that can be played
validateConfirm(game, player) ==
  /\ IsTurn(game, player)
  /\ diceWasRolled(game)
  /\ \A i \in 1..Len(game.turnDice[1].movesLeft) :
       getMoveActions(game.state, player.currentPieceType,
                      game.turnDice[1].movesLeft[i]) = <<>>

\* rule.validateUndo(game, player)
validateUndo(game, player) ==
  IsTurn(game, player) /\ diceWasRolled(game)

\* rule.hasWon(state, player)
hasWon(state, player) ==
  player.currentPieceType \in Colors /\ state.pips[player.currentPieceType] = 0

\* rule.getGameScore(state, winner): double when the loser never moved
getGameScore(state, winner) ==
  IF state.pips[OtherColor(winner.currentPieceType)] = StartPips THEN 2 ELSE 1

\* rule.nextTurn(match)
nextTurn(match) ==
  [match EXCEPT
     !.currentGame.turnPlayer =
        IF @ = match.host THEN match.guest ELSE match.host,
     !.currentGame.turnDice = <<>>]

\* ---------------------------------------- queue_manager.js (not in sources)

QueueKeys == <<RuleBgCasual, RuleBgGulbara, AnyRule>>

RECURSIVE RemoveAll(_, _)
RemoveAll(s, x) ==
  IF s = <<>> THEN <<>>
  ELSE IF Head(s) = x THEN RemoveAll(Tail(s), x)
  ELSE <<Head(s)>> \o RemoveAll(Tail(s), x)

\* faulty variant: the player leaves the queue of the casual rule only
removeFromCasual(q, pid) ==
  [k \in DOMAIN q |-> IF k = RuleBgCasual THEN RemoveAll(q[k], pid) ELSE q[k]]

\* QueueManager.remove / removeFromAll: the player leaves every queue
removeFromAll(q, pid) == [k \in DOMAIN q |-> RemoveAll(q[k], pid)]

\* QueueManager.addToRandom
addToRandom(q, pid, ruleName) == [q EXCEPT ![ruleName] = Append(@, pid)]

\* QueueManager.popFromRandom: first waiting entry compatible with ruleName;
\* a requester for any rule scans the keys in order
popFromRandom(q, ruleName) ==
  LET keys == IF ruleName = AnyRule THEN QueueKeys ELSE <<ruleName, AnyRule>>
      hit == {i \in 1..Len(keys) : q[keys[i]] # <<>>}
  IN IF hit = {} THEN [player |-> Null, ruleName |-> ruleName]
     ELSE LET i == CHOOSE j \in hit : \A k \in hit : j <= k
          IN [player |-> Head(q[keys[i]]), ruleName |-> keys[i]]


\* ------------------------------------------------------ server: messaging

NoReply == [msg |-> "", sock |-> Null, result |-> FALSE, error |-> "",
            matchID |-> Null, reused |-> FALSE, host |-> Null, guest |-> Null,
            moveActionList |-> <<>>, clientMsgSeq |-> 0,
            reconnected |-> FALSE, list |-> <<>>]

\* the reply object of handleRequest, sent to the requesting socket
Ok(msg, s) == [NoReply EXCEPT !.msg = msg, !.sock = s, !.result = TRUE]
Err(msg, s, text) == [NoReply EXCEPT !.msg = msg, !.sock = s, !.error = text]

\* An outcome: the state after the request, the reply, the events the
\* handler sends before the reply (events) and those it defers until the
\* reply is out (sendAfter).  inBounds is false when the request would
\* take the model past one of its bounds, saved is false when the store
\* fails under snapshotServer.
Out(st, reply, events, sendAfter) ==
  [st |-> st, reply |-> reply, events |-> events, sendAfter |-> sendAfter,
   inBounds |-> TRUE, saved |-> TRUE]

\* the handler throws before changing anything: createHandler logs the
\* exception and no reply is sent
Thrown(st) == Out(st, NoReply, <<>>, <<>>)

\* result = false, an error text, nothing changed
Rejected(st, msg, s, text) == Out(st, Err(msg, s, text), <<>>, <<>>)

Within(cond, o) == [o EXCEPT !.inBounds = cond]

\* a message to a socket with its params: every event carries the match,
\* EVENT_PIECE_MOVE also the action list, none a clientMsgSeq (0)
Event(msg, to, match) ==
  [msg |-> msg, to |-> to, match |-> match, moveActionList |-> <<>>,
   clientMsgSeq |-> 0]

\* sendMatchMessage: sendPlayerMessage to every id of match.players
sendMatchMessage(ps, match, msg) ==
  [i \in 1..Len(match.players) |->
     Event(msg, ps[match.players[i]].socketID, match)]

\* faulty variant: nobody is left out
sendOthersToAll(ps, match, exceptPlayerID, msg) ==
  sendMatchMessage(ps, match, msg)

RECURSIVE SelectOthers(_, _)
SelectOthers(ids, except) ==
  IF ids = <<>> THEN <<>>
  ELSE IF Head(ids) = except THEN SelectOthers(Tail(ids), except)
  ELSE <<Head(ids)>> \o SelectOthers(Tail(ids), except)

sendOthersMessage(ps, match, exceptPlayerID, msg) ==
  LET ids == SelectOthers(match.players, exceptPlayerID)
  IN [i \in 1..Len(ids) |-> Event(msg, ps[ids[i]].socketID, match)]

getPlayerByID(st, id) == IF id \in 1..Len(st.players) THEN id ELSE Null
getMatchByID(st, id) == IF id \in 1..Len(st.matches) THEN id ELSE Null

\* ------------------------------------------------------------ CREATE_GUEST

\* params.playerName, sanitized (server.js only)
desiredNameOf(st, playerName) ==
  IF st.impl = "server" THEN iccjSafeDisplayName(playerName) ELSE <<>>

\* the request names its player by params.playerID
byPlayerID(st, s, playerID) == st.socks[s].player = Null /\ playerID # Null

\* the player the request names, by params.playerID or by the cookie
namedPlayer(st, s, playerID, cookieID) ==
  IF byPlayerID(st, s, playerID) THEN getPlayerByID(st, playerID)
  ELSE getPlayerByID(st, cookieID)

\* if (player) player.socketID = socket.id, on the params.playerID path
claimed(st, s, playerID, found) ==
  IF byPlayerID(st, s, playerID) /\ found # Null
  THEN [st.players EXCEPT ![found].socketID = s]
  ELSE st.players

\* if (desiredName) player.name = desiredName
renamed(ps, found, desiredName) ==
  IF found # Null /\ desiredName # <<>>
  THEN [ps EXCEPT ![found].name = desiredName]
  ELSE ps

\* the match of the found player that is not over, if any
pendingMatch(st, found) ==
  IF found = Null THEN Null
  ELSE IF getMatchByID(st, st.players[found].currentMatch) = Null THEN Null
  ELSE IF st.matches[st.players[found].currentMatch].isOver THEN Null
  ELSE st.players[found].currentMatch

\* faulty variant: the connection gets the player but not the match
reconnectedUnbound(st, s, ps, found, m) ==
  Out([st EXCEPT
         !.players = [ps EXCEPT ![found].socketID = s],
         !.socks = [@ EXCEPT ![s].player = found]],
      [Ok("CREATE_GUEST", s) EXCEPT !.reconnected = TRUE], <<>>,
      <<Event("EVENT_MATCH_START", s, st.matches[m])>>)

\* the found player is bound to the connection again
reconnected(st, s, ps, found, m) ==
  Out([st EXCEPT
         !.players = [ps EXCEPT ![found].socketID = s],
         !.socks = [@ EXCEPT ![s].player = found, ![s].match = m,
                             ![s].rule = st.matches[m].ruleName]],
      [Ok("CREATE_GUEST", s) EXCEPT !.reconnected = TRUE], <<>>,
      <<Event("EVENT_MATCH_START", s, st.matches[m])>>)

\* a new player is created for the connection
created(st, s, ps, newID, desiredName) ==
  Within(newID <= MaxPlayers,
    Out([st EXCEPT
           !.players = Append(ps,
              [NewPlayer(newID) EXCEPT
                 !.name = IF desiredName # <<>> THEN desiredName
                          ELSE PlayerDefaultName(newID),
                 !.socketID = s]),
           !.socks = [@ EXCEPT ![s].player = newID]],
        Ok("CREATE_GUEST", s), <<>>, <<>>))

reconnectOrCreate(st, s, ps, found, m, desiredName) ==
  IF m # Null THEN reconnected(st, s, ps, found, m)
  ELSE created(st, s, ps, Len(st.players) + 1, desiredName)

createGuestAs(st, s, playerID, found, desiredName) ==
  reconnectOrCreate(st, s,
    renamed(claimed(st, s, playerID, found), found, desiredName),
    found, pendingMatch(st, found), desiredName)

handleCreateGuest(st, s, playerID, cookieID, playerName) ==
  createGuestAs(st, s, playerID, namedPlayer(st, s, playerID, cookieID),
                desiredNameOf(st, playerName))

\* ---------------------------------------------------------- GET_MATCH_LIST

\* reply.list, by the ids of its entries: server.js skips the matches that
\* are over, part_000 lists every match
matchList(st) ==
  SelectSeq([i \in 1..Len(st.matches) |-> i],
            LAMBDA i : st.impl = "part_000" \/ ~st.matches[i].isOver)

handleGetMatchList(st, s) ==
  Out(st, [Ok("GET_MATCH_LIST", s) EXCEPT !.list = matchList(st)], <<>>, <<>>)

\* ------------------------------------------------------------ CREATE_MATCH

\* the first match of the loop that is returned, null without one
First(hit) ==
  IF hit = {} THEN Null ELSE CHOOSE i \in hit : \A j \in hit : i <= j

\* the test of getOpenMatchByHostSlug on one match
isOpenUnder(st, match, needle) ==
  /\ ~match.isOver
  /\ match.guest = Null
  /\ \/ match.hostSlug # <<>> /\ iccjSlugify(match.hostSlug) = needle
     \/ match.hostName # <<>> /\ iccjSlugify(match.hostName) = needle
     \/ /\ match.host # Null
        /\ st.players[match.host].name # <<>>
        /\ iccjSlugify(st.players[match.host].name) = needle

firstOpenUnder(st, needle) ==
  IF needle = <<>> THEN Null
  ELSE First({i \in 1..Len(st.matches) : isOpenUnder(st, st.matches[i], needle)})

\* server.js getOpenMatchByHostSlug: first match that is not over, has no
\* guest and whose hostSlug, hostName or host's name slugifies to hostSlug
getOpenMatchByHostSlug(st, hostSlug) == firstOpenUnder(st, iccjSlugify(hostSlug))

\* var hay = match.hostSlug ? ... : (match.host && match.host.name ? ... : '')
hayOf(st, match) ==
  IF match.hostSlug # <<>> THEN iccjSlugify(match.hostSlug)
  ELSE IF match.host # Null /\ st.players[match.host].name # <<>>
       THEN iccjSlugify(st.players[match.host].name)
       ELSE <<>>

\* if (hay && hay === needle) return match
isUnder(hay, needle) == hay # <<>> /\ hay = needle

firstUnder(st, needle) ==
  IF needle = <<>> THEN Null
  ELSE First({i \in 1..Len(st.matches) :
                isUnder(hayOf(st, st.matches[i]), needle)})

\* part_000 getMatchByHostSlug: first match whose hostSlug (or, without
\* one, whose host's name) slugifies to hostSlug
getMatchByHostSlug(st, hostSlug) == firstUnder(st, iccjSlugify(hostSlug))

\* the match a CREATE_MATCH creates for host p
hostedMatch(id, p, hostName, hostSlug, slug) ==
  addHostPlayer(
    [NewMatch(id, RuleBgCasual) EXCEPT
       !.hostName = hostName,
       !.hostSlug = hostSlug,
       !.slug = slug,
       !.name = IF hostName # <<>> THEN hostName ELSE MatchDefaultName(id)], p)

\* the new match is registered and bound to the host and the connection
matchCreated(st, s, p, ps, match) ==
  Within(match.id <= MaxMatches,
    Out([st EXCEPT
           !.players = [ps EXCEPT ![p].currentMatch = match.id,
                                  ![p].currentPieceType = "WHITE"],
           !.matches = Append(@, match),
           !.socks = [@ EXCEPT ![s].match = match.id, ![s].rule = RuleBgCasual]],
        [Ok("CREATE_MATCH", s) EXCEPT !.matchID = match.id], <<>>, <<>>))

\* server.js: the open match of this hostSlug is handed out again
matchReused(st, s, ps, existing) ==
  Out([st EXCEPT !.players = ps,
                 !.socks = [@ EXCEPT ![s].match = existing,
                                     ![s].rule = RuleBgCasual]],
      [Ok("CREATE_MATCH", s) EXCEPT !.matchID = existing, !.reused = TRUE],
      <<>>, <<>>)

\* var existing = this.getOpenMatchByHostSlug(hostSlug); if (existing) ...
reuseOrCreate(st, s, p, ps, hostSlug, existing) ==
  IF existing # Null THEN matchReused(st, s, ps, existing)
  ELSE matchCreated(st, s, p, ps,
         hostedMatch(Len(st.matches) + 1, p, ps[p].name, hostSlug, hostSlug))

createUnder(st, s, p, ps, hostSlug) ==
  IF hostSlug = <<>>
  THEN Out([st EXCEPT !.players = ps],
           Err("CREATE_MATCH", s, "Host name is required."), <<>>, <<>>)
  ELSE reuseOrCreate(st, s, p, ps, hostSlug, getOpenMatchByHostSlug(st, hostSlug))

\* prefer the provided hostSlug, else derive it from the name
hostSlugFor(given, name) == IF given # <<>> THEN given ELSE iccjSlugify(name)

createNamed(st, s, p, ps, hostSlugParam) ==
  createUnder(st, s, p, ps, hostSlugFor(iccjSlugify(hostSlugParam), ps[p].name))

\* if (dn) player.name = dn
displayNamed(ps, p, dn) ==
  IF dn # <<>> THEN [ps EXCEPT ![p].name = dn] ELSE ps

\* server.js handleCreateMatch
CreateMatchServer(st, s, playerName, hostSlugParam) ==
  IF st.socks[s].player = Null
  THEN Rejected(st, "CREATE_MATCH", s, "Player not found!")
  ELSE createNamed(st, s, st.socks[s].player,
         displayNamed(st.players, st.socks[s].player,
                      iccjSafeDisplayName(playerName)),
         hostSlugParam)

\* part_000: a match is created every time
createAlways(st, s, p, ps) ==
  matchCreated(st, s, p, ps,
    hostedMatch(Len(st.matches) + 1, p, ps[p].name, iccjSlugify(ps[p].name),
                iccjMatchSlug(ps[p].name, <<>>)))

\* part_000 handleCreateMatch: params.hostName is stored as it is given
CreateMatchPart000(st, s, hostNameParam) ==
  IF st.socks[s].player = Null
  THEN Rejected(st, "CREATE_MATCH", s, "Player not found!")
  ELSE createAlways(st, s, st.socks[s].player,
         displayNamed(st.players, st.socks[s].player, hostNameParam))

handleCreateMatch(st, s, playerName, hostSlugParam) ==
  IF st.impl = "server" THEN CreateMatchServer(st, s, playerName, hostSlugParam)
  ELSE CreateMatchPart000(st, s, playerName)

\* -------------------------------------------------------------- JOIN_MATCH

\* which match a JOIN_MATCH addresses
resolveJoin(st, hostSlugParam, matchID) ==
  IF hostSlugParam = <<>> THEN getMatchByID(st, matchID)
  ELSE IF st.impl = "server"
  THEN getOpenMatchByHostSlug(st, iccjSlugify(hostSlugParam))
  ELSE getMatchByHostSlug(st, hostSlugParam)

\* faulty variant: a match always has room
neverFull(match) == FALSE

\* if (match.guest) -> the match is full
isFull(match) == match.guest # Null

\* match.hostName || (match.host && match.host.name) || 'Host' (or null)
hostNameOf(st, match) ==
  IF match.hostName # <<>> THEN match.hostName
  ELSE IF match.host # Null /\ st.players[match.host].name # <<>>
  THEN st.players[match.host].name
  ELSE IF st.impl = "server" THEN <<"H","o","s","t">> ELSE <<>>

\* guestPlayer.name || 'Guest'  (part_000: guestPlayer.name)
guestNameOf(st, p) ==
  IF st.players[p].name # <<>> \/ st.impl # "server" THEN st.players[p].name
  ELSE <<"G","u","e","s","t">>

\* match.name once both names are known
joinedName(st, m, hostName, guestName) ==
  IF st.impl = "server" \/ (hostName # <<>> /\ guestName # <<>>)
  THEN VsName(hostName, guestName)
  ELSE IF hostName # <<>> THEN hostName ELSE MatchDefaultName(m)

\* faulty variant: the guest is given the first turn
seatGuestFirst(match, hostName, guestName, p, name) ==
  [addGuestPlayer(match, p) EXCEPT
     !.hostName = hostName,
     !.guestName = guestName,
     !.slug = iccjMatchSlug(hostName, guestName),
     !.name = name,
     !.currentGame.hasStarted = TRUE,
     !.currentGame.turnPlayer = p,
     !.currentGame.turnNumber = 1]

\* the assignments that seat the guest and start the first game
seatGuest(match, hostName, guestName, p, name) ==
  [addGuestPlayer(match, p) EXCEPT
     !.hostName = hostName,
     !.guestName = guestName,
     !.slug = iccjMatchSlug(hostName, guestName),
     !.name = name,
     !.currentGame.hasStarted = TRUE,
     !.currentGame.turnPlayer = match.host,
     !.currentGame.turnNumber = 1]

\* guestPlayer.currentMatch = match.id; guestPlayer.currentPieceType = BLACK
guestOf(ps, p, m) ==
  [ps EXCEPT ![p].currentMatch = m, ![p].currentPieceType = "BLACK"]

joinSeated(st, s, m, ps, joined) ==
  Out([st EXCEPT
         !.players = ps,
         !.matches = [@ EXCEPT ![m] = joined],
         !.socks = [@ EXCEPT ![s].match = m, ![s].rule = joined.ruleName]],
      [Ok("JOIN_MATCH", s) EXCEPT !.matchID = m, !.host = joined.host,
                                  !.guest = joined.guest], <<>>,
      sendMatchMessage(ps, joined, "EVENT_MATCH_START"))

joinNamed(st, s, m, p, hostName, guestName) ==
  joinSeated(st, s, m, guestOf(st.players, p, m),
    seatGuest(st.matches[m], hostName, guestName, p,
              joinedName(st, m, hostName, guestName)))

joinResolved(st, s, m) ==
  IF st.impl # "server" /\ Len(st.matches) <= 0
  THEN Rejected(st, "JOIN_MATCH", s, "Match not found!")
  ELSE IF m = Null THEN Rejected(st, "JOIN_MATCH", s, "Match not found!")
  ELSE IF isFull(st.matches[m])
  THEN Rejected(st, "JOIN_MATCH", s, "Match is full!")
  ELSE IF st.socks[s].player = Null
  THEN Rejected(st, "JOIN_MATCH", s, "Player not found!")
  ELSE joinNamed(st, s, m, st.socks[s].player,
                 hostNameOf(st, st.matches[m]),
                 guestNameOf(st, st.socks[s].player))

handleJoinMatch(st, s, hostSlugParam, matchID) ==
  joinResolved(st, s, resolveJoin(st, hostSlugParam, matchID))

\* ------------------------------------------------------------- PLAY_RANDOM

\* if (params.ruleName === '*') params.ruleName = '.*'
patternOf(ruleNameParam) == IF ruleNameParam = "*" THEN AnyRule ELSE ruleNameParam

\* the rule of the new match: the requested one, else the waiting player's,
\* else one of the enabled rules
pairedRule(ruleName, popResult) ==
  IF ruleName # AnyRule THEN ruleName
  ELSE IF popResult.ruleName # AnyRule THEN popResult.ruleName
  ELSE RuleBgCasual

\* match.name of a paired match
pairedName(id, hostName, guestName) ==
  IF hostName # <<>> /\ guestName # <<>> THEN VsName(hostName, guestName)
  ELSE MatchDefaultName(id)

\* the match of the waiting player (host) and the requester (guest), started
pairedMatch(id, rn, other, p, hostName, guestName) ==
  [addGuestPlayer(addHostPlayer(
     [NewMatch(id, rn) EXCEPT
        !.hostName = hostName,
        !.hostSlug = iccjSlugify(hostName),
        !.guestName = guestName,
        !.slug = iccjMatchSlug(hostName, guestName),
        !.name = pairedName(id, hostName, guestName)], other), p)
   EXCEPT !.currentGame.hasStarted = TRUE,
          !.currentGame.turnPlayer = other,
          !.currentGame.turnNumber = 1]

\* currentMatch and currentPieceType of the host, then of the guest
pairedPlayers(ps, other, p, id) ==
  [[ps EXCEPT ![other].currentMatch = id, ![other].currentPieceType = "WHITE"]
      EXCEPT ![p].currentMatch = id, ![p].currentPieceType = "BLACK"]

paired(st, s, p, other, ps, match) ==
  Within(match.id <= MaxMatches,
    Out([st EXCEPT
           !.players = ps,
           !.matches = Append(@, match),
           !.socks = [[@ EXCEPT ![s].match = match.id,
                                ![s].rule = match.ruleName]
                         EXCEPT ![st.players[other].socketID].match = match.id,
                                ![st.players[other].socketID].rule = match.ruleName],
           !.queues = removeFromAll(removeFromAll(@, p), other)],
        [Ok("PLAY_RANDOM", s) EXCEPT !.matchID = match.id], <<>>,
        sendMatchMessage(ps, match, "EVENT_MATCH_START")))

pairOrWait(st, s, p, ruleName, popResult) ==
  IF popResult.player # Null
  THEN paired(st, s, p, popResult.player,
         pairedPlayers(st.players, popResult.player, p, Len(st.matches) + 1),
         pairedMatch(Len(st.matches) + 1, pairedRule(ruleName, popResult),
                     popResult.player, p,
                     st.players[popResult.player].name, st.players[p].name))
  ELSE Out([st EXCEPT !.queues = addToRandom(@, p, ruleName)],
           Ok("PLAY_RANDOM", s), <<>>, <<>>)

playRandomFor(st, s, ruleName) ==
  pairOrWait(st, s, st.socks[s].player, ruleName, popFromRandom(st.queues, ruleName))

handlePlayRandom(st, s, ruleNameParam) ==
  IF st.socks[s].player = Null
  THEN Rejected(st, "PLAY_RANDOM", s, "Player not found!")
  ELSE playRandomFor(st, s, patternOf(ruleNameParam))

\* --------------------------------------------------------------- ROLL_DICE

\* faulty variant: the dice are set but no snapshot is taken
rollIntoNoSnapshot(game, dice) == [game EXCEPT !.turnDice = <<dice>>]

\* faulty variant: the snapshot is taken before the dice are set
rollIntoSnapshotFirst(game, dice) ==
  [snapshotState(game) EXCEPT !.turnDice = <<dice>>]

\* game.turnDice = dice; Game.snapshotState(game)
rollInto(game, dice) == snapshotState([game EXCEPT !.turnDice = <<dice>>])

diceRolled(st, s, m, p, rolled) ==
  Out([st EXCEPT !.matches = [@ EXCEPT ![m] = rolled]],
      Ok("ROLL_DICE", s),
      sendOthersMessage(st.players, rolled, p, "EVENT_DICE_ROLL"), <<>>)

rollFor(st, s, m, p, game, v) ==
  IF ~game.hasStarted
  THEN Rejected(st, "ROLL_DICE", s, "Game is not yet started!")
  ELSE IF game.turnPlayer = Null
  THEN Rejected(st, "ROLL_DICE", s, "Cannot roll dice it isn't player's turn!")
  ELSE IF p = Null THEN Thrown(st)
  ELSE IF game.turnPlayer # p
  THEN Rejected(st, "ROLL_DICE", s, "Cannot roll dice it isn't player's turn!")
  ELSE IF diceWasRolled(game)
  THEN Rejected(st, "ROLL_DICE", s, "Dice was already rolled!")
  ELSE diceRolled(st, s, m, p,
         [st.matches[m] EXCEPT !.currentGame = rollInto(game, DiceOf(v))])

handleRollDice(st, s, v) ==
  IF st.socks[s].match = Null THEN Thrown(st)
  ELSE rollFor(st, s, st.socks[s].match, st.socks[s].player,
               st.matches[st.socks[s].match].currentGame, v)

\* -------------------------------------------------------------- MOVE_PIECE

\* faulty variant: the last move played still counts as current
alreadyPlayedLate(moveSequence, game) == moveSequence + 1 < game.moveSequence

\* params.moveSequence < match.currentGame.moveSequence
alreadyPlayed(moveSequence, game) == moveSequence < game.moveSequence

\* faulty variant: the move is played but not counted
playMoveUncounted(game, actionList, steps) ==
  markAsPlayed([game EXCEPT !.state = applyMoveActions(@, actionList)], steps)

\* applyMoveActions, markAsPlayed, moveSequence++
playMove(game, actionList, steps) ==
  [markAsPlayed([game EXCEPT !.state = applyMoveActions(@, actionList)], steps)
     EXCEPT !.moveSequence = @ + 1]

\* the events of a broadcast, each with moveActionList: actionList
withActions(events, actionList) ==
  [i \in 1..Len(events) |-> [events[i] EXCEPT !.moveActionList = actionList]]

\* faulty variant: the event is sent before the move is counted
piecePlayedEarly(st, s, m, played, actionList) ==
  Within(played.currentGame.moveSequence <= MaxMoveSeq,
    Out([st EXCEPT !.matches = [@ EXCEPT ![m] = played]],
        [Ok("MOVE_PIECE", s) EXCEPT !.moveActionList = actionList],
        withActions(
          sendMatchMessage(st.players,
            [played EXCEPT !.currentGame.moveSequence = @ - 1],
            "EVENT_PIECE_MOVE"),
          actionList),
        <<>>))

\* reply.moveActionList = actionList; sendMatchMessage(EVENT_PIECE_MOVE)
piecePlayed(st, s, m, played, actionList) ==
  Within(played.currentGame.moveSequence <= MaxMoveSeq,
    Out([st EXCEPT !.matches = [@ EXCEPT ![m] = played]],
        [Ok("MOVE_PIECE", s) EXCEPT !.moveActionList = actionList],
        withActions(sendMatchMessage(st.players, played, "EVENT_PIECE_MOVE"),
                    actionList),
        <<>>))

\* catch (e): reply.moveActionList = []; return false.  The game is left
\* as the try block had made it when the rule threw.
moveThrown(st, s, m, game) ==
  Out([st EXCEPT !.matches = [@ EXCEPT ![m].currentGame = game]],
      Err("MOVE_PIECE", s, ""), <<>>, <<>>)

\* try { applyMoveActions; markAsPlayed; moveSequence++; ... } catch (e):
\* applyMoveActions throws with nothing applied, markAsPlayed throws with
\* the dice untouched
moveActions(st, s, m, game, steps, actionList, throws) ==
  IF actionList = <<>>
  THEN Rejected(st, "MOVE_PIECE", s, "Requested move is not allowed!")
  ELSE IF throws = "applyMoveActions" THEN moveThrown(st, s, m, game)
  ELSE IF throws = "markAsPlayed"
  THEN moveThrown(st, s, m,
         [game EXCEPT !.state = applyMoveActions(@, actionList)])
  ELSE piecePlayed(st, s, m,
         [st.matches[m] EXCEPT !.currentGame = playMove(game, actionList, steps)],
         actionList)

moveFor(st, s, m, player, game, piece, steps, moveSequence, throws) ==
  IF alreadyPlayed(moveSequence, game)
  THEN Rejected(st, "MOVE_PIECE", s, "This move has already been played!")
  ELSE IF ~validateMove(game, player, piece, steps)
  THEN Rejected(st, "MOVE_PIECE", s, "Requested move is not valid!")
  ELSE moveActions(st, s, m, game, steps,
                   getMoveActions(game.state, piece, steps), throws)

handleMovePiece(st, s, piece, steps, moveSequence, throws) ==
  IF piece = "" THEN Rejected(st, "MOVE_PIECE", s, "No piece selected!")
  ELSE IF st.socks[s].match = Null \/ st.socks[s].player = Null THEN Thrown(st)
  ELSE moveFor(st, s, st.socks[s].match, st.players[st.socks[s].player],
               st.matches[st.socks[s].match].currentGame,
               piece, steps, moveSequence, throws)

\* ----------------------------------------------------------------- endGame

\* match.score[winner.currentPieceType] += score
addScore(match, color, score) == [match EXCEPT !.score[color] = @ + score]

\* faulty variant: the match length must be exceeded
markOverLate(match, color) ==
  IF match.score[color] > match.length THEN [match EXCEPT !.isOver = TRUE]
  ELSE match

\* if (match.score[winner.currentPieceType] >= match.length) match.isOver = true
markOver(match, color) ==
  IF match.score[color] >= match.length THEN [match EXCEPT !.isOver = TRUE]
  ELSE match

\* faulty variant: the next game is created but not started
restartGameUnstarted(match, winner) == createNewGame(match)

\* the else branch of if (match.isOver): the next game, started, winner first
restartGame(match, winner) ==
  [createNewGame(match) EXCEPT !.currentGame.hasStarted = TRUE,
                               !.currentGame.turnPlayer = winner,
                               !.currentGame.turnNumber = 1]

\* faulty variant: a next game also after the match is over
alwaysRestarted(scored, winner) ==
  [createNewGame(scored) EXCEPT !.currentGame.hasStarted = TRUE,
                                !.currentGame.turnPlayer = winner,
                                !.currentGame.turnNumber = 1]

\* if (match.isOver) ... else ...
overOrRestarted(scored, winner) ==
  IF scored.isOver THEN scored ELSE restartGame(scored, winner)

\* the match endGame leaves behind
endedMatch(match, winnerPlayer) ==
  overOrRestarted(
    markOver(addScore(match, winnerPlayer.currentPieceType,
                      getGameScore(match.currentGame.state, winnerPlayer)),
             winnerPlayer.currentPieceType),
    winnerPlayer.id)

\* faulty variant: the next game is announced also when the match is over
endEventsAlways(ps, after) ==
  (IF after.isOver THEN sendMatchMessage(ps, after, "EVENT_MATCH_OVER")
   ELSE sendMatchMessage(ps, after, "EVENT_GAME_OVER"))
  \o sendMatchMessage(ps, after, "EVENT_GAME_RESTART")

\* reply.sendAfter of endGame
endEvents(ps, after) ==
  IF after.isOver THEN sendMatchMessage(ps, after, "EVENT_MATCH_OVER")
  ELSE sendMatchMessage(ps, after, "EVENT_GAME_OVER")
       \o sendMatchMessage(ps, after, "EVENT_GAME_RESTART")

gameEnded(st, msg, s, m, color, after) ==
  Within(after.score[color] <= MaxScore /\ after.currentGame.id <= MaxGames,
    Out([st EXCEPT !.matches = [@ EXCEPT ![m] = after]],
        Ok(msg, s), <<>>, endEvents(st.players, after)))

\* endGame(socket, winner, resigned, reply), on the socket's match
endGame(st, msg, s, winner) ==
  IF st.socks[s].match = Null \/ winner = Null THEN Thrown(st)
  ELSE gameEnded(st, msg, s, st.socks[s].match,
         st.players[winner].currentPieceType,
         endedMatch(st.matches[st.socks[s].match], st.players[winner]))

\* ----------------------------------------------- CONFIRM_MOVES, UNDO_MOVES

\* faulty variant: the turn passes without EVENT_TURN_START
turnPassedSilent(st, s, m, turned) ==
  Out([st EXCEPT !.matches = [@ EXCEPT ![m] = turned]],
      Ok("CONFIRM_MOVES", s), <<>>, <<>>)

\* rule.nextTurn(match); sendMatchMessage(EVENT_TURN_START)
turnPassed(st, s, m, turned) ==
  Out([st EXCEPT !.matches = [@ EXCEPT ![m] = turned]],
      Ok("CONFIRM_MOVES", s),
      sendMatchMessage(st.players, turned, "EVENT_TURN_START"), <<>>)

confirmFor(st, s, m, p, match) ==
  IF ~validateConfirm(match.currentGame, st.players[p])
  THEN Rejected(st, "CONFIRM_MOVES", s, "Confirming moves is not allowed!")
  ELSE IF hasWon(match.currentGame.state, st.players[p])
  THEN endGame(st, "CONFIRM_MOVES", s, p)
  ELSE turnPassed(st, s, m, nextTurn(match))

handleConfirmMoves(st, s) ==
  IF st.socks[s].match = Null \/ st.socks[s].player = Null THEN Thrown(st)
  ELSE confirmFor(st, s, st.socks[s].match, st.socks[s].player,
                  st.matches[st.socks[s].match])

\* Game.restoreState; sendMatchMessage(EVENT_UNDO_MOVES)
movesUndone(st, s, m, undone) ==
  Out([st EXCEPT !.matches = [@ EXCEPT ![m] = undone]],
      Ok("UNDO_MOVES", s),
      sendMatchMessage(st.players, undone, "EVENT_UNDO_MOVES"), <<>>)

\* faulty variant: the board is restored before the rule is asked
undoForEager(st, s, m, p, match) ==
  IF ~validateUndo(match.currentGame, st.players[p])
  THEN Rejected([st EXCEPT !.matches =
                   [@ EXCEPT ![m] = [match EXCEPT !.currentGame = restoreState(@)]]],
                "UNDO_MOVES", s, "Undo moves is not allowed!")
  ELSE movesUndone(st, s, m, [match EXCEPT !.currentGame = restoreState(@)])

undoFor(st, s, m, p, match) ==
  IF ~validateUndo(match.currentGame, st.players[p])
  THEN Rejected(st, "UNDO_MOVES", s, "Undo moves is not allowed!")
  ELSE movesUndone(st, s, m, [match EXCEPT !.currentGame = restoreState(@)])

handleUndoMoves(st, s) ==
  IF st.socks[s].match = Null \/ st.socks[s].player = Null THEN Thrown(st)
  ELSE undoFor(st, s, st.socks[s].match, st.socks[s].player,
               st.matches[st.socks[s].match])

\* ------------------------------------------------ RESIGN_GAME, RESIGN_MATCH

\* (model.Match.isHost(match, player)) ? match.guest : match.host
otherPlayer(match, p) == IF isHost(match, p) THEN match.guest ELSE match.host

handleResignGame(st, s) ==
  IF st.socks[s].match = Null THEN Thrown(st)
  ELSE endGame(st, "RESIGN_GAME", s,
               otherPlayer(st.matches[st.socks[s].match], st.socks[s].player))

handleResignMatch(st, s) ==
  IF st.socks[s].match = Null THEN Thrown(st)
  ELSE Out(st, Ok("RESIGN_MATCH", s), <<>>,
           sendMatchMessage(st.players, st.matches[st.socks[s].match],
                            "EVENT_MATCH_OVER"))

\* -------------------------------------------------------------- disconnect

\* without a player nothing happens; else the player leaves the queues
handleDisconnect(st, s) ==
  IF st.socks[s].player = Null THEN Thrown(st)
  ELSE Out([st EXCEPT !.queues = removeFromAll(@, st.socks[s].player)],
           NoReply, <<>>, <<>>)

\* ----------------------------------------------------------- handleRequest

\* A request: the message, the connection it arrives on and its params.
\* cookieID is the player_id cookie of the connection's handshake, dice is
\* what rule.rollDice will show if the request comes to roll and throws
\* names the call of the rule that will throw if the request comes to it.
\* clientMsgSeq is 0 when the params carry none.  dbFails tells whether the
\* store will fail when the request comes to snapshotServer.
Request(msg, s) ==
  [msg |-> msg, sock |-> s, playerID |-> Null, cookieID |-> Null,
   playerName |-> <<>>, hostSlug |-> <<>>, matchID |-> Null, ruleName |-> "",
   dice |-> <<1, 1>>, piece |-> "", steps |-> 0, moveSequence |-> 0,
   throws |-> "", clientMsgSeq |-> 0, dbFails |-> FALSE]

\* faulty variant: PLAY_RANDOM is listened to everywhere
subscribedToAll(st, msg) == TRUE

\* socket.on(msg, ...) of run(): server.js does not subscribe to PLAY_RANDOM
Subscribed(st, msg) == msg # "PLAY_RANDOM" \/ st.impl = "part_000"

\* the handler handleRequest dispatches to
Dispatch(st, r) ==
  CASE r.msg = "CREATE_GUEST" ->
         handleCreateGuest(st, r.sock, r.playerID, r.cookieID, r.playerName)
    [] r.msg = "GET_MATCH_LIST" -> handleGetMatchList(st, r.sock)
    [] r.msg = "PLAY_RANDOM" -> handlePlayRandom(st, r.sock, r.ruleName)
    [] r.msg = "CREATE_MATCH" ->
         handleCreateMatch(st, r.sock, r.playerName, r.hostSlug)
    [] r.msg = "JOIN_MATCH" -> handleJoinMatch(st, r.sock, r.hostSlug, r.matchID)
    [] r.msg = "ROLL_DICE" -> handleRollDice(st, r.sock, r.dice)
    [] r.msg = "MOVE_PIECE" ->
         handleMovePiece(st, r.sock, r.piece, r.steps, r.moveSequence, r.throws)
    [] r.msg = "CONFIRM_MOVES" -> handleConfirmMoves(st, r.sock)
    [] r.msg = "UNDO_MOVES" -> handleUndoMoves(st, r.sock)
    [] r.msg = "RESIGN_GAME" -> handleResignGame(st, r.sock)
    [] r.msg = "RESIGN_MATCH" -> handleResignMatch(st, r.sock)
    [] OTHER -> Thrown(st)

\* What a message on a connection does: a request the server listens to is
\* handled by handleRequest, which gives the reply the clientMsgSeq of the
\* request and ends with snapshotServer, the socket's disconnect by
\* handleDisconnect, and anything else is ignored.  An exception of the
\* store under snapshotServer is caught and logged by createHandler.
handleRequest(st, r) ==
  IF r.msg = "disconnect" THEN handleDisconnect(st, r.sock)
  ELSE IF Subscribed(st, r.msg)
  THEN [Dispatch(st, r) EXCEPT !.reply.clientMsgSeq = r.clientMsgSeq,
                               !.saved = ~r.dbFails]
  ELSE Thrown(st)

\* one thing a request puts out: an event of the handler, the reply, a
\* deferred event or the call of snapshotServer
Emission(kind, msg, to) == [kind |-> kind, msg |-> msg, to |-> to]

EmissionsOf(kind, events) ==
  [i \in 1..Len(events) |-> Emission(kind, events[i].msg, events[i].to)]

\* faulty variant: the deferred events leave before the reply
EmittedDeferredFirst(o) ==
  IF o.reply.sock = Null THEN EmissionsOf("event", o.events)
  ELSE EmissionsOf("event", o.events) \o EmissionsOf("deferred", o.sendAfter)
         \o <<Emission("reply", o.reply.msg, o.reply.sock)>>
         \o <<Emission("snapshot", IF o.saved THEN "saved" ELSE "failed", Null)>>

\* What a request puts out, in the order of handleRequest: the events the
\* handler sends while it runs, then sendMessage(socket, msg, reply), then
\* reply.sendAfter(), then snapshotServer().  A handler that throws, a
\* message nobody listens to and a disconnect get no further than the
\* handler.
Emitted(o) ==
  IF o.reply.sock = Null THEN EmissionsOf("event", o.events)
  ELSE EmissionsOf("event", o.events)
         \o <<Emission("reply", o.reply.msg, o.reply.sock)>>
         \o EmissionsOf("deferred", o.sendAfter)
         \o <<Emission("snapshot", IF o.saved THEN "saved" ELSE "failed", Null)>>

\* ------------------------------------------------------------ the program

Impls == {"server", "part_000"}

\* new Server(): no players, no matches, sockets without player or match
EmptyServer(i) ==
  [impl |-> i, players |-> <<>>, matches |-> <<>>,
   socks |-> [s \in Sockets |-> [player |-> Null, match |-> Null, rule |-> ""]],
   queues |-> [k \in {RuleBgCasual, RuleBgGulbara, AnyRule} |-> <<>>]]

\* the request takes effect: the server is in the outcome's state
Apply(o) ==
  /\ o.inBounds
  /\ impl' = o.st.impl
  /\ players' = o.st.players
  /\ matches' = o.st.matches
  /\ socks' = o.st.socks
  /\ queues' = o.st.queues
  /\ UNCHANGED startup

\* config.playerName of the client behind connection s
ConfigName(s) == IF s = 2 THEN <<>> ELSE <<"A","l","i","c","e"," ">>

PlayerRefs(st) == 0..Len(st.players)
MatchRefs(st) == 0..Len(st.matches)
HostSlugs == SlugInputs \cup {<<>>}
RuleNames == {RuleBgCasual, "*"}
Pieces == Colors \cup {""}
Steps == 1..MaxDie
MoveSequences == 0..MaxMoveSeq

\* Client.handleConnect: a connection sends CREATE_GUEST once, when it
\* opens; connections open in the order of their numbers
Connecting(st, s) ==
  /\ st.socks[s].player = Null
  /\ \A r \in 1..(s - 1) : st.socks[r].player # Null

\* the requests connection s can send in state st, by message
CreateGuestRequests(st, s) ==
  IF Connecting(st, s)
  THEN {[Request("CREATE_GUEST", s) EXCEPT !.playerID = ref,
                                           !.playerName = ConfigName(s)] :
          ref \in PlayerRefs(st)}
       \cup
       {[Request("CREATE_GUEST", s) EXCEPT !.cookieID = ref,
                                           !.playerName = ConfigName(s)] :
          ref \in PlayerRefs(st)}
  ELSE {}

GetMatchListRequests(st, s) == {Request("GET_MATCH_LIST", s)}

CreateMatchRequests(st, s) ==
  {[Request("CREATE_MATCH", s) EXCEPT !.playerName = ConfigName(s),
                                      !.hostSlug = hostSlug,
                                      !.ruleName = RuleBgCasual] :
     hostSlug \in HostSlugs}

JoinMatchRequests(st, s) ==
  {[Request("JOIN_MATCH", s) EXCEPT !.hostSlug = hostSlug] :
     hostSlug \in SlugInputs}
  \cup
  {[Request("JOIN_MATCH", s) EXCEPT !.matchID = matchID] :
     matchID \in MatchRefs(st)}

PlayRandomRequests(st, s) ==
  {[Request("PLAY_RANDOM", s) EXCEPT !.ruleName = ruleName] :
     ruleName \in RuleNames}

RollDiceRequests(st, s) ==
  {[Request("ROLL_DICE", s) EXCEPT !.dice = v] : v \in DiceOutcomes}

MovePieceRequests(st, s) ==
  {[Request("MOVE_PIECE", s) EXCEPT !.piece = piece, !.steps = steps,
                                    !.moveSequence = moveSequence] :
     piece \in Pieces, steps \in Steps, moveSequence \in MoveSequences}

ConfirmMovesRequests(st, s) == {Request("CONFIRM_MOVES", s)}
UndoMovesRequests(st, s) == {Request("UNDO_MOVES", s)}
ResignGameRequests(st, s) == {Request("RESIGN_GAME", s)}
ResignMatchRequests(st, s) == {Request("RESIGN_MATCH", s)}
DisconnectRequests(st, s) == {Request("disconnect", s)}

\* one action per message: connection s sends a request of that kind and
\* the server handles it
CreateGuest(s) ==
  \E r \in CreateGuestRequests(Cur, s) : \E o \in {handleRequest(Cur, r)} : Apply(o)

GetMatchList(s) ==
  \E r \in GetMatchListRequests(Cur, s) : \E o \in {handleRequest(Cur, r)} : Apply(o)

CreateMatch(s) ==
  \E r \in CreateMatchRequests(Cur, s) : \E o \in {handleRequest(Cur, r)} : Apply(o)

JoinMatch(s) ==
  \E r \in JoinMatchRequests(Cur, s) : \E o \in {handleRequest(Cur, r)} : Apply(o)

PlayRandom(s) ==
  \E r \in PlayRandomRequests(Cur, s) : \E o \in {handleRequest(Cur, r)} : Apply(o)

RollDice(s) ==
  \E r \in RollDiceRequests(Cur, s) : \E o \in {handleRequest(Cur, r)} : Apply(o)

MovePiece(s) ==
  \E r \in MovePieceRequests(Cur, s) : \E o \in {handleRequest(Cur, r)} : Apply(o)

ConfirmMoves(s) ==
  \E r \in ConfirmMovesRequests(Cur, s) : \E o \in {handleRequest(Cur, r)} : Apply(o)

UndoMoves(s) ==
  \E r \in UndoMovesRequests(Cur, s) : \E o \in {handleRequest(Cur, r)} : Apply(o)

ResignGame(s) ==
  \E r \in ResignGameRequests(Cur, s) : \E o \in {handleRequest(Cur, r)} : Apply(o)

ResignMatch(s) ==
  \E r \in ResignMatchRequests(Cur, s) : \E o \in {handleRequest(Cur, r)} : Apply(o)

Disconnect(s) ==
  \E r \in DisconnectRequests(Cur, s) : \E o \in {handleRequest(Cur, r)} : Apply(o)

Init ==
  /\ impl \in Impls
  /\ players = <<>>
  /\ matches = <<>>
  /\ socks = EmptyServer(impl).socks
  /\ queues = EmptyServer(impl).queues
  /\ startup = Running

\* the lobby: connections open, matches are listed, created, joined and
\* paired, connections drop
Next ==
  \E s \in Sockets :
    \/ CreateGuest(s)
    \/ GetMatchList(s)
    \/ CreateMatch(s)
    \/ JoinMatch(s)
    \/ PlayRandom(s)
    \/ Disconnect(s)

Spec == Init /\ [][Next]_vars

\* ------------------------------------------------------- the game in play

\* the servers after handling the requests of a script one after the other,
\* starting in one of the states of from
RECURSIVE Run(_, _)
Run(from, script) ==
  IF script = <<>> THEN from
  ELSE Run({handleRequest(st, Head(script)).st : st \in from}, Tail(script))

Connect(s) == [Request("CREATE_GUEST", s) EXCEPT !.playerName = ConfigName(s)]
Reconnect(s, id) == [Connect(s) EXCEPT !.playerID = id]
Create(s, hostSlug) ==
  [Request("CREATE_MATCH", s) EXCEPT !.playerName = ConfigName(s),
                                     !.hostSlug = hostSlug,
                                     !.ruleName = RuleBgCasual]
JoinBySlug(s, hostSlug) == [Request("JOIN_MATCH", s) EXCEPT !.hostSlug = hostSlug]
JoinByID(s, matchID) == [Request("JOIN_MATCH", s) EXCEPT !.matchID = matchID]

ALICE == <<"A","L","I","C","E">>

\* How the matches in play were set up:
\*  - a host and a guest, joined by the host's slug;
\*  - the same, and the host has since reconnected on a new connection;
\*  - a host, and a second player who asked for a match under the host's slug;
\*  - two hosts who then joined each other's match.
Setups ==
  { <<Connect(1), Connect(2), Create(1, <<>>), JoinBySlug(2, ALICE)>>,
    <<Connect(1), Connect(2), Create(1, <<>>), JoinBySlug(2, ALICE),
      Reconnect(3, 1)>>,
    <<Connect(1), Connect(2), Create(1, <<>>), Create(2, ALICE)>>,
    <<Connect(1), Connect(2), Create(1, <<>>), Create(2, <<>>),
      JoinBySlug(2, ALICE), JoinByID(1, 2)>> }

InPlay == UNION {Run({EmptyServer(i) : i \in Impls}, script) : script \in Setups}

InitPlay ==
  \E st \in InPlay :
    /\ impl = st.impl
    /\ players = st.players
    /\ matches = st.matches
    /\ socks = st.socks
    /\ queues = st.queues
    /\ startup = Running

NextPlay ==
  \E s \in Sockets :
    \/ RollDice(s)
    \/ MovePiece(s)
    \/ ConfirmMoves(s)
    \/ UndoMoves(s)
    \/ ResignGame(s)
    \/ ResignMatch(s)

SpecPlay == InitPlay /\ [][NextPlay]_vars

\* ------------------------------------------------------------- the startup

MaxStoredMatches == 2

\* a match as snapshotServer stored it: host and guest are copies of the
\* players embedded in the match document
StoredMatch(id, h, g) ==
  [id |-> id, host |-> Embedded(h),
   guest |-> IF g = Null THEN NoPlayer ELSE Embedded(g)]

\* what the store can hold: the players 1..n in one of two orders and up to
\* MaxStoredMatches matches among them, the guest seat taken or free
StoredPlayers(n) == {[i \in 1..n |-> i], [i \in 1..n |-> n + 1 - i]}

StoredMatches(n) ==
  UNION {[1..k -> {<<h, g>> \in (1..n) \X (0..n) : h # g}] :
           k \in 1..MaxStoredMatches}

Stores ==
  UNION {{[players |-> ps,
           matches |-> [i \in DOMAIN hg |-> StoredMatch(i, hg[i][1], hg[i][2])]] :
            ps \in StoredPlayers(n), hg \in StoredMatches(n)} :
         n \in 2..MaxPlayers}

\* getPlayerByID over the players restored so far: the registry's object,
\* null without one
restoredPlayerByID(ps, id) ==
  IF \E i \in 1..Len(ps) : ps[i] = id THEN Canonical(id) ELSE NoPlayer

\* if (match.host && match.host.id) match.host = getPlayerByID(match.host.id),
\* and the same for the guest
relink(match, ps) ==
  [match EXCEPT
     !.host = IF @.id # Null THEN restoredPlayerByID(ps, @.id) ELSE @,
     !.guest = IF @.id # Null THEN restoredPlayerByID(ps, @.id) ELSE @]

\* for (i = 0; i < self.matches.length; i++): the matches that are in the
\* registry when the loop runs
relinkAll(ms, ps) == [i \in 1..Len(ms) |-> relink(ms[i], ps)]

\* restoreServer(): matches.find() and players.find() open the two cursors,
\* each(...) registers their callbacks, and the relink loop runs at once;
\* run() then goes on to listen
RestoreServer ==
  /\ startup.pc = "start"
  /\ startup' = [startup EXCEPT
                   !.pc = "listening",
                   !.matchesCursor = startup.db.matches,
                   !.playersCursor = startup.db.players,
                   !.matches = relinkAll(@, startup.players)]
  /\ UNCHANGED <<impl, players, matches, socks, queues>>

\* the callback of matchesCursor.each with the next item:
\* self.matches.push(item)
MatchItem ==
  /\ startup.pc \in {"listening", "serving"}
  /\ startup.matchesCursor # <<>>
  /\ startup' = [startup EXCEPT
                   !.matches = Append(@, Head(startup.matchesCursor)),
                   !.matchesCursor = Tail(@)]
  /\ UNCHANGED <<impl, players, matches, socks, queues>>

\* the callback of playersCursor.each with the next item:
\* self.players.push(item)
PlayerItem ==
  /\ startup.pc \in {"listening", "serving"}
  /\ startup.playersCursor # <<>>
  /\ startup' = [startup EXCEPT
                   !.players = Append(@, Head(startup.playersCursor)),
                   !.playersCursor = Tail(@)]
  /\ UNCHANGED <<impl, players, matches, socks, queues>>

\* the first request of a client is taken up
FirstRequest ==
  /\ startup.pc = "listening"
  /\ startup' = [startup EXCEPT !.pc = "serving"]
  /\ UNCHANGED <<impl, players, matches, socks, queues>>

\* a server with a store is started: run() is about to call restoreServer
InitStartup ==
  /\ impl \in Impls
  /\ players = <<>>
  /\ matches = <<>>
  /\ socks = EmptyServer(impl).socks
  /\ queues = EmptyServer(impl).queues
  /\ \E db \in Stores :
       startup = [Running EXCEPT !.pc = "start", !.db = db]

NextStartup == RestoreServer \/ MatchItem \/ PlayerItem \/ FirstRequest

SpecStartup == InitStartup /\ [][NextStartup]_vars

\* ------------------------------------------------------------- properties

TurnDepth == 3       \* moves and undos followed after a roll

MatchIDs(st) == 1..Len(st.matches)

\* every request a connection can send in state st
RequestsOf(st, s) ==
  CreateGuestRequests(st, s) \cup GetMatchListRequests(st, s)
    \cup CreateMatchRequests(st, s) \cup JoinMatchRequests(st, s)
    \cup PlayRandomRequests(st, s) \cup RollDiceRequests(st, s)
    \cup MovePieceRequests(st, s) \cup ConfirmMovesRequests(st, s)
    \cup UndoMovesRequests(st, s) \cup ResignGameRequests(st, s)
    \cup ResignMatchRequests(st, s) \cup DisconnectRequests(st, s)

AllRequests(st) == UNION {RequestsOf(st, s) : s \in Sockets}

\* the connections bound to match m
BoundTo(st, m) == {s \in Sockets : st.socks[s].match = m}

\* the moves and undos the connections of match m can ask for
TurnRequests(st, m) ==
  UNION {MovePieceRequests(st, s) \cup UndoMovesRequests(st, s) :
           s \in BoundTo(st, m)}

\* the states reached from those of from by at most k moves and undos
RECURSIVE WithinTurn(_, _, _)
WithinTurn(from, m, k) ==
  IF k = 0 THEN from
  ELSE WithinTurn(
         from \cup UNION {{handleRequest(st, r).st : r \in TurnRequests(st, m)} :
                            st \in from},
         m, k - 1)

Sent(o) == {o.events[i].msg : i \in 1..Len(o.events)}
           \cup {o.sendAfter[i].msg : i \in 1..Len(o.sendAfter)}

\* the request was answered with result = false
Refused(o, s) == o.reply.sock = s /\ ~o.reply.result

\* C1: within one Game an accepted MOVE_PIECE raises moveSequence of the
\* game it is played in by exactly 1, and no request of any kind lowers the
\* moveSequence of a game that is still the current game afterwards.
C1_MoveSequenceCounts ==
  \A r \in AllRequests(Cur) :
    LET o == handleRequest(Cur, r)
        own == socks[r.sock].match
    IN \A m \in MatchIDs(Cur) :
         LET before == matches[m].currentGame
             after == o.st.matches[m].currentGame
         IN after.id = before.id =>
              /\ after.moveSequence >= before.moveSequence
              /\ (r.msg = "MOVE_PIECE" /\ o.reply.result /\ m = own)
                   => after.moveSequence = before.moveSequence + 1
              /\ (r.msg # "MOVE_PIECE" \/ ~o.reply.result \/ m # own)
                   => after.moveSequence = before.moveSequence

\* a guest is on turn in the first game after moves were played: the host
\* moved and confirmed, and the count of moves stayed
C1_Witness ==
  \E m \in MatchIDs(Cur) :
    /\ matches[m].currentGame.id = 1
    /\ matches[m].currentGame.moveSequence >= 2
    /\ matches[m].guest # Null
    /\ matches[m].currentGame.turnPlayer = matches[m].guest

\* C2: a MOVE_PIECE whose moveSequence is below the moveSequence of the
\* current game of the connection's match is answered with result = false,
\* changes nothing on the server and sends no EVENT_PIECE_MOVE.
C2_StaleMoveRejected ==
  \A s \in Sockets : \A r \in MovePieceRequests(Cur, s) :
    (socks[s].match # Null
       /\ r.moveSequence < matches[socks[s].match].currentGame.moveSequence)
    => LET o == handleRequest(Cur, r)
       IN /\ Refused(o, s)
          /\ o.st = Cur
          /\ "EVENT_PIECE_MOVE" \notin Sent(o)

\* some move is refused only because its moveSequence is stale: with the
\* current moveSequence the same move is accepted
C2_Witness ==
  \E s \in Sockets : \E r \in MovePieceRequests(Cur, s) :
    /\ socks[s].match # Null
    /\ r.moveSequence < matches[socks[s].match].currentGame.moveSequence
    /\ handleRequest(Cur,
         [r EXCEPT !.moveSequence =
            matches[socks[s].match].currentGame.moveSequence]).reply.result

\* C3: after an accepted ROLL_DICE and then any moves and undos of that turn
\* (up to TurnDepth of them), an accepted UNDO_MOVES leaves the board equal
\* to the board the dice were rolled on.
C3_UndoRestoresRollBoard ==
  \A s \in Sockets : \A r \in RollDiceRequests(Cur, s) :
    LET o == handleRequest(Cur, r)
        m == socks[s].match
    IN o.reply.result =>
         \A st \in WithinTurn({o.st}, m, TurnDepth) : \A u \in BoundTo(st, m) :
           LET undo == handleRequest(st, Request("UNDO_MOVES", u))
           IN undo.reply.result =>
                undo.st.matches[m].currentGame.state
                  = o.st.matches[m].currentGame.state

\* in the first turn of a match two moves were counted and the board is the
\* new board again: moves were undone
C3_Witness ==
  \E m \in MatchIDs(Cur) :
    /\ matches[m].currentGame.id = 1
    /\ matches[m].currentGame.turnPlayer = matches[m].host
    /\ matches[m].currentGame.moveSequence >= 2
    /\ diceWasRolled(matches[m].currentGame)
    /\ matches[m].currentGame.state = NewState

\* C4: after an accepted ROLL_DICE, and whatever moves and undos follow in
\* that turn (up to TurnDepth of them), every ROLL_DICE on the same match is
\* answered with result = false and changes nothing, in particular neither
\* the dice nor the undo snapshot.
C4_SecondRollRejected ==
  \A s \in Sockets : \A r \in RollDiceRequests(Cur, s) :
    LET o == handleRequest(Cur, r)
        m == socks[s].match
    IN o.reply.result =>
         \A st \in WithinTurn({o.st}, m, TurnDepth) : \A u \in BoundTo(st, m) :
           \A again \in RollDiceRequests(st, u) :
             LET second == handleRequest(st, again)
             IN /\ Refused(second, u)
                /\ second.st = st

\* the player on turn has rolled and played a die, and asks to roll again
C4_Witness ==
  \E s \in Sockets :
    /\ socks[s].match # Null
    /\ matches[socks[s].match].currentGame.turnPlayer = socks[s].player
    /\ diceWasRolled(matches[socks[s].match].currentGame)
    /\ matches[socks[s].match].currentGame.state
         # matches[socks[s].match].currentGame.previousState[1]
    /\ handleRequest(Cur, Request("ROLL_DICE", s)).reply.error
         = "Dice was already rolled!"

\* the match is over exactly when some color has reached the match length
OverIffReached(match) ==
  match.isOver <=> \E c \in Colors : match.score[c] >= match.length

\* C5: a match is over exactly when the score of some color has reached the
\* match length, before and after every request, and no request makes a
\* match that is over not over.
C5_OverIffScoreReached ==
  /\ \A m \in MatchIDs(Cur) : OverIffReached(matches[m])
  /\ \A r \in AllRequests(Cur) : \A m \in MatchIDs(Cur) :
       LET after == handleRequest(Cur, r).st.matches[m]
       IN /\ OverIffReached(after)
          /\ matches[m].isOver => after.isOver

\* a match was decided in its second game
C5_Witness ==
  \E m \in MatchIDs(Cur) :
    /\ matches[m].isOver
    /\ matches[m].currentGame.id = 2
    /\ \E c \in Colors : matches[m].score[c] >= matches[m].length

\* C6: a match that is over keeps its current Game under every request,
\* and the request that ends a match leaves the Game it ended in as the
\* current Game.
C6_NoGameAfterOver ==
  \A r \in AllRequests(Cur) : \A m \in MatchIDs(Cur) :
    LET after == handleRequest(Cur, r).st.matches[m]
    IN (matches[m].isOver \/ after.isOver) =>
         after.currentGame.id = matches[m].currentGame.id

\* a match is over and a game resignation on it is still accepted
C6_Witness ==
  \E s \in Sockets :
    /\ socks[s].match # Null
    /\ matches[socks[s].match].isOver
    /\ handleRequest(Cur, Request("RESIGN_GAME", s)).reply.result

\* the player endGame is called with: the confirming player who has won, or
\* the other player of a resignation
WinnerOf(st, r) ==
  IF r.msg = "RESIGN_GAME"
  THEN otherPlayer(st.matches[st.socks[r.sock].match], st.socks[r.sock].player)
  ELSE st.socks[r.sock].player

\* the request ends the current game of the connection's match
EndsGame(st, r, o) ==
  /\ r.msg \in {"CONFIRM_MOVES", "RESIGN_GAME"}
  /\ o.reply.result
  /\ r.msg = "CONFIRM_MOVES" =>
       hasWon(st.matches[st.socks[r.sock].match].currentGame.state,
              st.players[st.socks[r.sock].player])

\* C7: when a request ends a game and the match is not over afterwards, the
\* score of the winner's color has grown by getGameScore and the match has a
\* new current Game that has started, with the winner on turn and turn
\* number 1.
C7_NextGameToWinner ==
  \A s \in Sockets :
    \A r \in ConfirmMovesRequests(Cur, s) \cup ResignGameRequests(Cur, s) :
      LET o == handleRequest(Cur, r)
          m == socks[s].match
          winner == players[WinnerOf(Cur, r)]
          before == matches[m]
          after == o.st.matches[m]
      IN (EndsGame(Cur, r, o) /\ ~after.isOver) =>
           /\ after.score[winner.currentPieceType]
                = before.score[winner.currentPieceType]
                    + getGameScore(before.currentGame.state, winner)
           /\ after.score[OtherColor(winner.currentPieceType)]
                = before.score[OtherColor(winner.currentPieceType)]
           /\ after.currentGame.id # before.currentGame.id
           /\ after.currentGame.hasStarted
           /\ after.currentGame.turnPlayer = winner.id
           /\ after.currentGame.turnNumber = 1

\* a second game was started after a game won by a single point
C7_Witness ==
  \E m \in MatchIDs(Cur) :
    /\ ~matches[m].isOver
    /\ matches[m].currentGame.id = 2
    /\ matches[m].currentGame.hasStarted
    /\ matches[m].currentGame.turnNumber = 1
    /\ \E c \in Colors : matches[m].score[c] = 1

\* a match without guest that is not over
IsOpen(match) == match.guest = Null /\ ~match.isOver

\* the hostSlug a CREATE_MATCH of server.js asks for: the slug given, else
\* the one of the name the host will carry
AskedSlug(st, r) ==
  IF slugify(r.hostSlug) # <<>> THEN slugify(r.hostSlug)
  ELSE IF iccjSafeDisplayName(r.playerName) # <<>>
  THEN slugify(iccjSafeDisplayName(r.playerName))
  ELSE slugify(st.players[st.socks[r.sock].player].name)

\* C8: in server.js no two matches without guest that are not over carry the
\* same hostSlug, and a CREATE_MATCH whose hostSlug is the one of such a
\* match is answered with that match's id, reused, and creates no match.
C8_OneOpenMatchPerSlug ==
  impl = "server" =>
    /\ \A i, j \in MatchIDs(Cur) :
         (i # j /\ IsOpen(matches[i]) /\ IsOpen(matches[j]))
           => matches[i].hostSlug # matches[j].hostSlug
    /\ \A s \in Sockets : \A r \in CreateMatchRequests(Cur, s) :
         \A i \in MatchIDs(Cur) :
           (socks[s].player # Null /\ IsOpen(matches[i])
              /\ matches[i].hostSlug = AskedSlug(Cur, r))
           => LET o == handleRequest(Cur, r)
              IN /\ o.reply.result
                 /\ o.reply.reused
                 /\ o.reply.matchID = i
                 /\ Len(o.st.matches) = Len(matches)

\* the matches without guest that are not over and carry hostSlug slug
OpenUnder(st, slug) ==
  {i \in MatchIDs(st) : IsOpen(st.matches[i]) /\ st.matches[i].hostSlug = slug}

\* C9: in both servers a JOIN_MATCH by slug of a connection with a player
\* joins, whenever some match without guest that is not over carries the
\* trimmed, lower-cased slug as its hostSlug, such a match, whatever other
\* matches exist.
C9_JoinResolvesOpenMatch ==
  \A s \in Sockets : \A r \in JoinMatchRequests(Cur, s) :
    (r.hostSlug # <<>> /\ socks[s].player # Null
       /\ OpenUnder(Cur, toLowerCase(trim(r.hostSlug))) # {})
    => LET o == handleRequest(Cur, r)
       IN /\ o.reply.result
          /\ o.reply.matchID \in OpenUnder(Cur, toLowerCase(trim(r.hostSlug)))
          /\ o.st.matches[o.reply.matchID].guest = socks[s].player

\* C10: no request changes the host or the guest of a match that has a
\* guest, whether the match is over or not.
C10_SeatsArePermanent ==
  \A r \in AllRequests(Cur) : \A m \in MatchIDs(Cur) :
    matches[m].guest # Null =>
      LET after == handleRequest(Cur, r).st.matches[m]
      IN after.host = matches[m].host /\ after.guest = matches[m].guest

\* a match with a guest is over and a JOIN_MATCH that resolves to it is
\* refused because the match is full
C10_Witness ==
  \E m \in MatchIDs(Cur) :
    /\ matches[m].guest # Null
    /\ matches[m].isOver
    /\ \E s \in Sockets :
         handleRequest(Cur, JoinByID(s, m)).reply.error = "Match is full!"

\* the match a JOIN_MATCH is addressed to, by its hostSlug or by its id
AddressedTo(st, r, m) ==
  IF r.hostSlug # <<>> THEN slugify(r.hostSlug) = st.matches[m].hostSlug
  ELSE r.matchID = m

\* C11: a JOIN_MATCH addressed, by host slug or by match id, to a match that
\* has a guest is answered with result = false and the error that the match
\* is full, and leaves that match unchanged.
C11_SecondJoinIsFull ==
  \A s \in Sockets : \A r \in JoinMatchRequests(Cur, s) :
    \A m \in MatchIDs(Cur) :
      (matches[m].guest # Null /\ AddressedTo(Cur, r, m)) =>
        LET o == handleRequest(Cur, r)
        IN /\ Refused(o, s)
           /\ o.reply.error = "Match is full!"
           /\ o.st.matches[m] = matches[m]

\* the messages an outcome sends besides the reply, in the order sent
Broadcasts(o) == o.events \o o.sendAfter

\* the sockets an outcome delivers the event msg to
Delivered(o, msg) ==
  {Broadcasts(o)[i].to : i \in {j \in 1..Len(Broadcasts(o)) : Broadcasts(o)[j].msg = msg}}

\* the socket the server reaches player pid on
SocketOf(st, pid) == st.players[pid].socketID

\* C12: an accepted JOIN_MATCH joins a match that had no guest, replies with
\* host = that match's host and guest = the joining player, leaves the
\* current game started with the host on turn and turn number 1, and
\* delivers EVENT_MATCH_START to the host and to the guest.
C12_JoinStartsMatch ==
  \A s \in Sockets : \A r \in JoinMatchRequests(Cur, s) :
    LET o == handleRequest(Cur, r)
        m == o.reply.matchID
        after == o.st.matches[m]
    IN o.reply.result =>
         /\ m \in MatchIDs(Cur)
         /\ matches[m].guest = Null
         /\ o.reply.host = matches[m].host
         /\ o.reply.guest = socks[s].player
         /\ after.host = matches[m].host
         /\ after.guest = socks[s].player
         /\ after.currentGame.hasStarted
         /\ after.currentGame.turnPlayer = after.host
         /\ after.currentGame.turnNumber = 1
         /\ SocketOf(o.st, after.host) \in Delivered(o, "EVENT_MATCH_START")
         /\ SocketOf(o.st, after.guest) \in Delivered(o, "EVENT_MATCH_START")

\* a guest other than the host was seated by a join and the first game is
\* started with the host on turn
C12_Witness ==
  \E m \in MatchIDs(Cur) :
    /\ matches[m].guest # Null
    /\ matches[m].guest # matches[m].host
    /\ matches[m].guestName # <<>>
    /\ matches[m].currentGame.hasStarted
    /\ matches[m].currentGame.turnPlayer = matches[m].host
    /\ SocketOf(Cur, matches[m].host) # SocketOf(Cur, matches[m].guest)
    /\ socks[SocketOf(Cur, matches[m].guest)].match = m

\* the players seated in a match
Participants(match) == {match.host, match.guest} \ {Null}

\* C13: an accepted ROLL_DICE delivers EVENT_DICE_ROLL to the socket of every
\* participant of the match other than the roller, and to no socket of the
\* roller.
C13_DiceRollToOthersOnly ==
  \A s \in Sockets : \A r \in RollDiceRequests(Cur, s) :
    LET o == handleRequest(Cur, r)
        match == matches[socks[s].match]
        roller == socks[s].player
    IN o.reply.result =>
         /\ \A q \in Participants(match) \ {roller} :
              SocketOf(o.st, q) \in Delivered(o, "EVENT_DICE_ROLL")
         /\ \A to \in Delivered(o, "EVENT_DICE_ROLL") :
              to # s /\ socks[to].player # roller

\* the dice were rolled in a match whose two participants are different
\* players on different sockets
C13_Witness ==
  \E m \in MatchIDs(Cur) :
    /\ diceWasRolled(matches[m].currentGame)
    /\ matches[m].currentGame.moveSequence = 0
    /\ matches[m].guest # Null
    /\ matches[m].guest # matches[m].host
    /\ SocketOf(Cur, matches[m].guest) # SocketOf(Cur, matches[m].host)

\* the events msg an outcome sends
EventsOf(o, msg) ==
  {Broadcasts(o)[i] : i \in {j \in 1..Len(Broadcasts(o)) : Broadcasts(o)[j].msg = msg}}

\* C14: an accepted MOVE_PIECE delivers EVENT_PIECE_MOVE to the host and to
\* the guest; the reply and every such event carry the same non-empty action
\* list, which is the one that took the board from its state before the
\* request to its state after, and the match in the event is the match after
\* the request, with moveSequence one above the value before.
C14_PieceMoveToBoth ==
  \A s \in Sockets : \A r \in MovePieceRequests(Cur, s) :
    LET o == handleRequest(Cur, r)
        m == socks[s].match
        after == o.st.matches[m]
    IN o.reply.result =>
         /\ o.reply.moveActionList # <<>>
         /\ applyMoveActions(matches[m].currentGame.state, o.reply.moveActionList)
              = after.currentGame.state
         /\ after.currentGame.state # matches[m].currentGame.state
         /\ \A q \in Participants(matches[m]) :
              SocketOf(o.st, q) \in Delivered(o, "EVENT_PIECE_MOVE")
         /\ \A e \in EventsOf(o, "EVENT_PIECE_MOVE") :
              /\ e.moveActionList = o.reply.moveActionList
              /\ e.match = after
              /\ e.match.currentGame.moveSequence
                   = matches[m].currentGame.moveSequence + 1

\* the first move of a second game has been played
C14_Witness ==
  \E m \in MatchIDs(Cur) :
    /\ matches[m].currentGame.id = 2
    /\ matches[m].currentGame.moveSequence = 1
    /\ matches[m].currentGame.state # NewState
    /\ matches[m].guest # Null

KeepsTurn(r) ==
  r.msg \in {"ROLL_DICE", "MOVE_PIECE", "UNDO_MOVES", "GET_MATCH_LIST",
             "CREATE_GUEST", "disconnect"}

\* C16: turnPlayer of a started game that is still the current game after a
\* request differs only after an accepted CONFIRM_MOVES on that match;
\* ROLL_DICE, MOVE_PIECE, UNDO_MOVES, GET_MATCH_LIST, CREATE_GUEST,
\* disconnects and every request not answered with result = true leave
\* turnPlayer of every game as it was.
C16_TurnChangesOnConfirmOnly ==
  \A r \in AllRequests(Cur) :
    LET o == handleRequest(Cur, r)
    IN \A m \in MatchIDs(Cur) :
         LET before == matches[m].currentGame
             after == o.st.matches[m].currentGame
         IN /\ (before.hasStarted /\ after.id = before.id
                  /\ after.turnPlayer # before.turnPlayer)
                 => /\ r.msg = "CONFIRM_MOVES"
                    /\ o.reply.result
                    /\ m = socks[r.sock].match
            /\ (KeepsTurn(r) \/ ~o.reply.result)
                 => after.id = before.id /\ after.turnPlayer = before.turnPlayer

\* the request is refused with an error text, nothing is changed and
\* nothing is broadcast
RefusedCleanly(st, o, s) ==
  /\ Refused(o, s)
  /\ o.reply.error # ""
  /\ o.st = st
  /\ Broadcasts(o) = <<>>

\* C17: from a connection with a player and a match, a ROLL_DICE while the
\* game has not started, the player is not on turn or the dice were already
\* rolled, an UNDO_MOVES for which rule.validateUndo fails and a
\* CONFIRM_MOVES for which rule.validateConfirm fails are answered with
\* result = false and an error text, change nothing on the server and send
\* no event.
C17_RejectedPlayChangesNothing ==
  \A s \in Sockets :
    (socks[s].match # Null /\ socks[s].player # Null) =>
      LET game == matches[socks[s].match].currentGame
          p == players[socks[s].player]
      IN /\ (~game.hasStarted \/ game.turnPlayer # p.id \/ diceWasRolled(game))
              => \A r \in RollDiceRequests(Cur, s) :
                   RefusedCleanly(Cur, handleRequest(Cur, r), s)
         /\ ~validateUndo(game, p)
              => \A r \in UndoMovesRequests(Cur, s) :
                   RefusedCleanly(Cur, handleRequest(Cur, r), s)
         /\ ~validateConfirm(game, p)
              => \A r \in ConfirmMovesRequests(Cur, s) :
                   RefusedCleanly(Cur, handleRequest(Cur, r), s)

\* a move has been played and the player who is not on turn asks to undo it
C17_Witness ==
  \E s \in Sockets :
    /\ socks[s].match # Null
    /\ socks[s].player # Null
    /\ diceWasRolled(matches[socks[s].match].currentGame)
    /\ matches[socks[s].match].currentGame.state
         # matches[socks[s].match].currentGame.previousState[1]
    /\ matches[socks[s].match].currentGame.turnPlayer # socks[s].player
    /\ handleRequest(Cur, Request("UNDO_MOVES", s)).reply.error
         = "Undo moves is not allowed!"

\* display names a user can type that are kept as they are but have no slug
TypedNames == { <<".">> }

\* CREATE_MATCH with a typed display name and no hostSlug
TypedCreateRequests(st, s) ==
  {[Request("CREATE_MATCH", s) EXCEPT !.playerName = name,
                                      !.ruleName = RuleBgCasual] :
     name \in TypedNames}

\* C18: a CREATE_MATCH or JOIN_MATCH that is answered with result = false
\* leaves every player record, the matches and the match and rule bound to
\* the connection unchanged.
C18_FailedLobbyRequestChangesNothing ==
  \A s \in Sockets :
    \A r \in CreateMatchRequests(Cur, s) \cup TypedCreateRequests(Cur, s)
               \cup JoinMatchRequests(Cur, s) :
      LET o == handleRequest(Cur, r)
      IN Refused(o, s) =>
           /\ o.st.players = players
           /\ o.st.matches = matches
           /\ o.st.socks[s] = socks[s]

\* C19: a MOVE_PIECE of a connection with a player and a match whose
\* moveSequence is above the moveSequence of the current game is answered
\* with result = false and an error text and changes nothing.
C19_FutureMoveRejected ==
  \A s \in Sockets : \A r \in MovePieceRequests(Cur, s) :
    (socks[s].match # Null /\ socks[s].player # Null
       /\ r.moveSequence > matches[socks[s].match].currentGame.moveSequence)
    => RefusedCleanly(Cur, handleRequest(Cur, r), s)

\* the calls of the rule inside the try block of handleMovePiece
ThrowingCalls == {"applyMoveActions", "markAsPlayed"}

\* the MOVE_PIECE requests of connection s during which the rule throws
ThrownMoveRequests(st, s) ==
  {[r EXCEPT !.throws = c] : r \in MovePieceRequests(st, s), c \in ThrowingCalls}

\* the request comes to the try block of handleMovePiece
ReachesApply(st, r) ==
  /\ st.socks[r.sock].match # Null /\ st.socks[r.sock].player # Null
  /\ handleRequest(st, [r EXCEPT !.throws = ""]).reply.result

\* C20: a MOVE_PIECE during which rule.applyMoveActions or
\* rule.markAsPlayed throws is answered with result = false and an empty
\* moveActionList, and the board, the dice and the moveSequence of the
\* current game are what they were before the request.
C20_FailedApplyChangesNothing ==
  \A s \in Sockets : \A r \in ThrownMoveRequests(Cur, s) :
    ReachesApply(Cur, r) =>
      LET o == handleRequest(Cur, r)
          before == matches[socks[s].match].currentGame
          after == o.st.matches[socks[s].match].currentGame
      IN /\ Refused(o, s)
         /\ o.reply.moveActionList = <<>>
         /\ after.state = before.state
         /\ after.turnDice = before.turnDice
         /\ after.moveSequence = before.moveSequence

\* C21: after an accepted ROLL_DICE, some moves and undos of that turn (up
\* to TurnDepth of them) and an accepted UNDO_MOVES that takes back at least
\* one move, a MOVE_PIECE of the undoing connection that rule.validateMove
\* accepts and that carries the moveSequence the game had at the roll is
\* answered with result = true.
C21_UndoReopensRollSequence ==
  \A s \in Sockets : \A r \in RollDiceRequests(Cur, s) :
    LET o == handleRequest(Cur, r)
        m == socks[s].match
    IN o.reply.result =>
         \A st \in WithinTurn({o.st}, m, TurnDepth) : \A u \in BoundTo(st, m) :
           LET undo == handleRequest(st, Request("UNDO_MOVES", u))
               rolled == o.st.matches[m].currentGame
           IN (undo.reply.result
                 /\ st.matches[m].currentGame.state # rolled.state) =>
                \A mv \in MovePieceRequests(undo.st, u) :
                  (/\ mv.moveSequence = rolled.moveSequence
                   /\ undo.st.socks[u].player # Null
                   /\ validateMove(undo.st.matches[m].currentGame,
                                   undo.st.players[undo.st.socks[u].player],
                                   mv.piece, mv.steps))
                  => handleRequest(undo.st, mv).reply.result

\* the requests of a game in play
GameRequests(st, s) ==
  RollDiceRequests(st, s) \cup MovePieceRequests(st, s)
    \cup ConfirmMovesRequests(st, s) \cup UndoMovesRequests(st, s)
    \cup ResignGameRequests(st, s) \cup ResignMatchRequests(st, s)

\* connection s has no player, no match or a match without a guest
Unseated(st, s) ==
  \/ st.socks[s].player = Null
  \/ st.socks[s].match = Null
  \/ st.matches[st.socks[s].match].guest = Null

\* C22: a ROLL_DICE, MOVE_PIECE, CONFIRM_MOVES, UNDO_MOVES, RESIGN_GAME or
\* RESIGN_MATCH of a connection without a player, without a match or with a
\* match that has no guest is answered with result = false and an error
\* text, changes nothing on the server and sends no event.
C22_UnseatedPlayRefused ==
  \A s \in Sockets :
    Unseated(Cur, s) =>
      \A r \in GameRequests(Cur, s) :
        RefusedCleanly(Cur, handleRequest(Cur, r), s)

\* the commands run() subscribes a connection to (server.js leaves
\* PLAY_RANDOM out)
HandledCommands(i) ==
  {"CREATE_GUEST", "GET_MATCH_LIST", "CREATE_MATCH", "JOIN_MATCH", "ROLL_DICE",
   "MOVE_PIECE", "CONFIRM_MOVES", "UNDO_MOVES", "RESIGN_GAME", "RESIGN_MATCH"}
    \cup (IF i = "part_000" THEN {"PLAY_RANDOM"} ELSE {})

\* requests of connection s whose command is not handled
UnhandledRequests(st, s) ==
  {r \in PlayRandomRequests(st, s) \cup {Request("PING", s)} :
     r.msg \notin HandledCommands(st.impl)}

\* C23: a request whose command is not one of the handled commands gets no
\* reply, sends no event, triggers no snapshot and changes nothing on the
\* server.
C23_UnknownCommandIgnored ==
  \A s \in Sockets : \A r \in UnhandledRequests(Cur, s) :
    LET o == handleRequest(Cur, r)
    IN Emitted(o) = <<>> /\ o.st = Cur

\* a connection with a player sends an unhandled PLAY_RANDOM that would be
\* answered if it were handled
C23_Witness ==
  \E s \in Sockets : \E r \in UnhandledRequests(Cur, s) :
    /\ r.msg = "PLAY_RANDOM"
    /\ socks[s].player # Null
    /\ Dispatch(Cur, r).reply.sock = s

\* ------------------------------------------------------- lib/client.js

\* new Client(): _clientMsgSeq = 0, _callbackList = {}; called lists the
\* callbacks invoked so far, each with the clientMsgSeq and the message it
\* was invoked on
NewClient == [clientMsgSeq |-> 0, callbackList |-> {}, called |-> <<>>]

\* the messages _openSocket subscribes the client's socket to
ClientMessages ==
  {"CREATE_GUEST", "GET_MATCH_LIST", "CREATE_MATCH", "JOIN_MATCH", "ROLL_DICE",
   "MOVE_PIECE", "EVENT_PLAYER_JOINED", "EVENT_TURN_START", "EVENT_DICE_ROLL",
   "EVENT_PIECE_MOVE", "EVENT_MATCH_START", "EVENT_GAME_OVER",
   "EVENT_MATCH_OVER", "EVENT_GAME_RESTART", "EVENT_UNDO_MOVES"}

\* Client.sendMessage(msg, params, callback): params.clientMsgSeq =
\* ++_clientMsgSeq; _callbackList[params.clientMsgSeq] = callback
clientSendMessage(c) ==
  [c EXCEPT !.clientMsgSeq = @ + 1,
            !.callbackList = @ \cup {c.clientMsgSeq + 1}]

\* Client.handleMessage(msg, params) for a message the socket is subscribed
\* to: the callback under params.clientMsgSeq is called and deleted
clientHandleMessage(c, msg, seq) ==
  IF msg \in ClientMessages /\ seq # 0 /\ seq \in c.callbackList
  THEN [c EXCEPT !.called = Append(@, [seq |-> seq, msg |-> msg]),
                 !.callbackList = @ \ {seq}]
  ELSE c

RECURSIVE clientHandleAll(_, _)
clientHandleAll(c, received) ==
  IF received = <<>> THEN c
  ELSE clientHandleAll(
         clientHandleMessage(c, Head(received).msg, Head(received).clientMsgSeq),
         Tail(received))

\* what the client on socket t receives from an outcome, in order
ReceivedBy(o, t) ==
  SelectSeq(o.events, LAMBDA e : e.to = t)
    \o (IF o.reply.sock = t THEN <<o.reply>> ELSE <<>>)
    \o SelectSeq(o.sendAfter, LAMBDA e : e.to = t)

\* the commands the client sends with a callback (reqCreateMatchInviteOnly,
\* reqJoinMatchByHostSlug, reqRollDice, reqConfirmMoves, reqMove)
CallbackCommands ==
  {"CREATE_MATCH", "JOIN_MATCH", "ROLL_DICE", "CONFIRM_MOVES", "MOVE_PIECE"}

\* a client that has sent k requests whose replies are still out
ClientAfter(k) == IF k = 0 THEN NewClient ELSE clientSendMessage(NewClient)

\* C24: a request the client sends with a callback and the server handles to
\* its end is answered with a reply of the same command carrying the
\* request's clientMsgSeq; of what the request puts out, the client that sent
\* it calls the callback registered under that clientMsgSeq exactly once, on
\* that reply, and a client on another connection waiting under the same
\* clientMsgSeq calls nothing.
C24_CallbackOncePerReply ==
  \A s \in Sockets : \A r \in RequestsOf(Cur, s) : \A k \in 0..1 :
    LET c == clientSendMessage(ClientAfter(k))
        o == handleRequest(Cur, [r EXCEPT !.clientMsgSeq = c.clientMsgSeq])
    IN (r.msg \in CallbackCommands /\ o.reply.sock = s) =>
         /\ o.reply.msg = r.msg
         /\ o.reply.clientMsgSeq = c.clientMsgSeq
         /\ clientHandleAll(c, ReceivedBy(o, s)).called
              = <<[seq |-> c.clientMsgSeq, msg |-> r.msg]>>
         /\ \A t \in Sockets \ {s} :
              clientHandleAll(c, ReceivedBy(o, t)).called = <<>>

\* the id a CREATE_GUEST supplies, in params.playerID or in the cookie
SuppliedID(r) == IF r.playerID # Null THEN r.playerID ELSE r.cookieID

\* id is the id of a player whose current match exists and is not over
HasUnfinishedMatch(st, id) ==
  /\ id \in 1..Len(st.players)
  /\ st.players[id].currentMatch \in 1..Len(st.matches)
  /\ ~st.matches[st.players[id].currentMatch].isOver

\* C25: a CREATE_GUEST of an opening connection that supplies the id of a
\* player with an unfinished match is answered with result = true and
\* reconnected = true, creates no player and no match, binds the connection
\* to that player, to that match and to the rule of that match, and leaves
\* every match, its game included, as it was.
C25_ReconnectRebinds ==
  \A s \in Sockets : \A r \in CreateGuestRequests(Cur, s) :
    HasUnfinishedMatch(Cur, SuppliedID(r)) =>
      LET o == handleRequest(Cur, r)
          m == players[SuppliedID(r)].currentMatch
      IN /\ o.reply.sock = s /\ o.reply.result /\ o.reply.reconnected
         /\ Len(o.st.players) = Len(players)
         /\ o.st.matches = matches
         /\ o.st.socks[s] = [player |-> SuppliedID(r), match |-> m,
                             rule |-> matches[m].ruleName]

\* a connection can open with the id of the host of a match that has
\* started
C25_Witness ==
  \E s \in Sockets : \E r \in CreateGuestRequests(Cur, s) :
    /\ HasUnfinishedMatch(Cur, SuppliedID(r))
    /\ matches[players[SuppliedID(r)].currentMatch].currentGame.hasStarted
    /\ handleRequest(Cur, r).reply.reconnected

\* player pid waits in some queue
Queued(q, pid) == \E k \in DOMAIN q : InSeq(pid, q[k])

\* C26: after the disconnect of a connection its player is in no pairing
\* queue, and every match (host, guest, score, isOver and current game with
\* dice, board and turnPlayer) is what it was before.
C26_DisconnectLeavesMatches ==
  \A s \in Sockets : \A r \in DisconnectRequests(Cur, s) :
    LET o == handleRequest(Cur, r)
    IN /\ o.st.matches = matches
       /\ socks[s].player # Null => ~Queued(o.st.queues, socks[s].player)

\* a connection whose player waits in a queue while a match is in progress
C26_Witness ==
  \E s \in Sockets :
    /\ socks[s].player # Null
    /\ Queued(queues, socks[s].player)
    /\ \E m \in MatchIDs(Cur) :
         matches[m].currentGame.hasStarted /\ ~matches[m].isOver

\* the rules a player can ask PLAY_RANDOM for by name
NamedRules == {RuleBgCasual, RuleBgGulbara}

\* PLAY_RANDOM of connection s for ruleName
PlayRandomOf(s, ruleName) ==
  [Request("PLAY_RANDOM", s) EXCEPT !.ruleName = ruleName]

\* the connections a, b, c belong to three different players
ThreePlayers(st, a, b, c) ==
  /\ st.socks[a].player # Null /\ st.socks[b].player # Null
  /\ st.socks[c].player # Null
  /\ Cardinality({st.socks[a].player, st.socks[b].player, st.socks[c].player}) = 3

RestoredAndLinked ==
  /\ Len(startup.matches) = Len(startup.db.matches)
  /\ \A i \in 1..Len(startup.matches) :
       \E j \in 1..Len(startup.db.matches) :
         LET m == startup.matches[i]
             stored == startup.db.matches[j]
         IN /\ m.id = stored.id
            /\ m.host = Canonical(stored.host.id)
            /\ m.guest = IF stored.guest.id = Null THEN NoPlayer
                         ELSE Canonical(stored.guest.id)

\* C28: when the first request of a client is taken up after restoreServer,
\* every stored match is in the match registry and its host and guest are
\* the Player objects of the player registry with the same ids, in whatever
\* order the callbacks of the two cursors have delivered their items.
C28_RestoredBeforeFirstRequest ==
  [][(startup.pc = "listening" /\ startup'.pc = "serving") => RestoredAndLinked]_vars

\* the places of the emissions of a kind in what a request puts out
Places(em, kind) == {i \in 1..Len(em) : em[i].kind = kind}

\* C29: of what a handled request puts out, the reply comes before every
\* deferred event and the one call of snapshotServer comes after the reply
\* and after every deferred event; when the store fails under that call the
\* server state after the request, the reply and everything put out before
\* the call are what they are when the store works.
C29_ReplyDeferredSnapshot ==
  \A r \in AllRequests(Cur) :
    LET o == handleRequest(Cur, r)
        failed == handleRequest(Cur, [r EXCEPT !.dbFails = TRUE])
        em == Emitted(o)
    IN o.reply.sock # Null =>
         /\ Cardinality(Places(em, "reply")) = 1
         /\ Places(em, "snapshot") = {Len(em)}
         /\ Cardinality(Places(em, "deferred")) = Len(o.sendAfter)
         /\ \A i \in Places(em, "reply") : \A j \in Places(em, "deferred") : i < j
         /\ failed.st = o.st
         /\ failed.reply = o.reply
         /\ SubSeq(Emitted(failed), 1, Len(em) - 1) = SubSeq(em, 1, Len(em) - 1)
         /\ Emitted(failed)[Len(em)] = Emission("snapshot", "failed", Null)

\* some request ends a game: two events are deferred behind its reply
C29_Witness ==
  \E r \in AllRequests(Cur) :
    /\ handleRequest(Cur, r).reply.result
    /\ Len(handleRequest(Cur, r).sendAfter) >= 2

\* the messages of the deferred events of an outcome that go to socket t, in
\* the order they are sent
DeferredTo(o, t) ==
  LET mine == SelectSeq(o.sendAfter, LAMBDA e : e.to = t)
  IN [i \in 1..Len(mine) |-> mine[i].msg]

\* the messages endGame announces a game end with
EndMessages == {"EVENT_GAME_OVER", "EVENT_GAME_RESTART", "EVENT_MATCH_OVER"}

\* C30: a request that ends a game sends none of EVENT_GAME_OVER,
\* EVENT_GAME_RESTART and EVENT_MATCH_OVER before its reply.  When the match
\* is not over afterwards, the socket of every participant gets, after the
\* reply, EVENT_GAME_OVER and then EVENT_GAME_RESTART, the latter with the
\* match and its new current game, and nobody gets EVENT_MATCH_OVER; when
\* the match is over the socket of every participant gets EVENT_MATCH_OVER
\* and nobody gets EVENT_GAME_OVER or EVENT_GAME_RESTART.
C30_GameEndEvents ==
  \A s \in Sockets :
    \A r \in ConfirmMovesRequests(Cur, s) \cup ResignGameRequests(Cur, s) :
      LET o == handleRequest(Cur, r)
          m == socks[s].match
          after == o.st.matches[m]
      IN EndsGame(Cur, r, o) =>
           /\ \A i \in 1..Len(o.events) : o.events[i].msg \notin EndMessages
           /\ \A p \in Participants(after) :
                DeferredTo(o, SocketOf(o.st, p))
                  = IF after.isOver THEN <<"EVENT_MATCH_OVER">>
                    ELSE <<"EVENT_GAME_OVER", "EVENT_GAME_RESTART">>
           /\ \A i \in 1..Len(o.sendAfter) :
                /\ o.sendAfter[i].msg
                     \in (IF after.isOver THEN {"EVENT_MATCH_OVER"}
                          ELSE {"EVENT_GAME_OVER", "EVENT_GAME_RESTART"})
                /\ o.sendAfter[i].match = after
           /\ ~after.isOver =>
                after.currentGame.id # matches[m].currentGame.id

\* a request ends a game of a match with host and guest, and the match is
\* over afterwards
C30_Witness ==
  \E s \in Sockets :
    \E r \in ConfirmMovesRequests(Cur, s) \cup ResignGameRequests(Cur, s) :
      /\ EndsGame(Cur, r, handleRequest(Cur, r))
      /\ matches[socks[s].match].guest # Null
      /\ handleRequest(Cur, r).st.matches[socks[s].match].isOver

\* C31: GET_MATCH_LIST is answered with result = true and a list that has
\* exactly one entry for every match that is not over and none for a match
\* that is over, and changes nothing on the server.
C31_MatchListOfUnfinished ==
  \A s \in Sockets : \A r \in GetMatchListRequests(Cur, s) :
    LET o == handleRequest(Cur, r)
    IN /\ o.reply.sock = s /\ o.reply.result
       /\ o.st = Cur
       /\ \A m \in MatchIDs(Cur) :
            Cardinality({i \in 1..Len(o.reply.list) : o.reply.list[i] = m})
              = IF matches[m].isOver THEN 0 ELSE 1

\* C32: after an accepted MOVE_PIECE and then any moves and undos of that
\* turn (up to TurnDepth of them), a MOVE_PIECE of a connection of the match
\* that carries the moveSequence of the accepted one is answered with
\* result = false.
C32_SameSequenceNotTwice ==
  \A s \in Sockets : \A r \in MovePieceRequests(Cur, s) :
    LET o == handleRequest(Cur, r)
        m == socks[s].match
    IN o.reply.result =>
         \A st \in WithinTurn({o.st}, m, TurnDepth) : \A u \in BoundTo(st, m) :
           \A again \in MovePieceRequests(st, u) :
             (again.moveSequence = r.moveSequence
                /\ st.matches[m].currentGame.id = o.st.matches[m].currentGame.id)
             => ~handleRequest(st, again).reply.result

\* what C33 and C36 protect of a match: scores, isOver and the current game
\* with its dice, board and turnPlayer
Standing(match) ==
  [score |-> match.score, isOver |-> match.isOver,
   currentGame |-> match.currentGame]

\* the player of connection s is neither the host nor the guest of match m
Outsider(st, s, m) == st.socks[s].player \notin Participants(st.matches[m])

\* C33: a ROLL_DICE, MOVE_PIECE, CONFIRM_MOVES, UNDO_MOVES, RESIGN_GAME or
\* RESIGN_MATCH of a connection whose player is neither the host nor the
\* guest of a match leaves that match's scores, isOver, current game, dice,
\* board and turnPlayer as they are.
C33_OnlyParticipantsChangeMatch ==
  \A s \in Sockets : \A m \in MatchIDs(Cur) :
    Outsider(Cur, s, m) =>
      \A r \in GameRequests(Cur, s) :
        Standing(handleRequest(Cur, r).st.matches[m]) = Standing(matches[m])

\* C34: in every reachable state the guest of a match, when there is one, is
\* another player than its host.
C34_GuestIsNotHost ==
  \A m \in MatchIDs(Cur) :
    matches[m].guest # Null => matches[m].guest # matches[m].host

\* the color of the seat player p has in the match: WHITE for the host, BLACK
\* for the guest
SeatColor(match, p) == IF p = match.host THEN "WHITE" ELSE "BLACK"

\* C35: when a request ends a game of a match whose host and guest are two
\* players, the score of the color of the winner's seat in that match (WHITE
\* for the host, BLACK for the guest) grows by the game's score and the
\* score of the other color stays.
C35_ScoreToWinnersSeat ==
  \A s \in Sockets :
    \A r \in ConfirmMovesRequests(Cur, s) \cup ResignGameRequests(Cur, s) :
      LET o == handleRequest(Cur, r)
          m == socks[s].match
          w == WinnerOf(Cur, r)
          seat == SeatColor(matches[m], w)
      IN (EndsGame(Cur, r, o) /\ matches[m].host # matches[m].guest
            /\ w \in Participants(matches[m])) =>
           /\ o.st.matches[m].score[seat]
                = matches[m].score[seat]
                    + getGameScore(matches[m].currentGame.state, players[w])
           /\ o.st.matches[m].score[OtherColor(seat)]
                = matches[m].score[OtherColor(seat)]

\* C36: once a match is over, a ROLL_DICE, MOVE_PIECE, CONFIRM_MOVES,
\* UNDO_MOVES, RESIGN_GAME or RESIGN_MATCH of any connection leaves its
\* scores, isOver, board, dice and turnPlayer as they are.
C36_OverMatchIsFrozen ==
  \A m \in MatchIDs(Cur) :
    matches[m].isOver =>
      \A s \in Sockets : \A r \in GameRequests(Cur, s) :
        Standing(handleRequest(Cur, r).st.matches[m]) = Standing(matches[m])

\* C37: whenever a request makes the server send EVENT_MATCH_OVER to the
\* players of a match, that match's isOver is true once the request is
\* handled, and no later request makes it false again.
C37_MatchOverMeansIsOver ==
  /\ \A r \in AllRequests(Cur) :
       LET o == handleRequest(Cur, r)
       IN "EVENT_MATCH_OVER" \in Sent(o) =>
            /\ socks[r.sock].match # Null
            /\ o.st.matches[socks[r.sock].match].isOver
  /\ \A r \in AllRequests(Cur) : \A m \in MatchIDs(Cur) :
       matches[m].isOver => handleRequest(Cur, r).st.matches[m].isOver

\* C38: a match of length L never has more than 2L-1 Games: its current Game
\* is at most the (2L-1)-th, a match that is not over has at least one point
\* on its scores for every game that has ended, and a request that ends the
\* (2L-1)-th game leaves the match over and creates no further Game.
C38_AtMostTwiceLengthGames ==
  /\ \A m \in MatchIDs(Cur) :
       /\ matches[m].currentGame.id <= 2 * matches[m].length - 1
       /\ ~matches[m].isOver =>
            /\ matches[m].score["WHITE"] + matches[m].score["BLACK"]
                 >= matches[m].currentGame.id - 1
            /\ \A c \in Colors : matches[m].score[c] < matches[m].length
  /\ \A s \in Sockets :
       \A r \in ConfirmMovesRequests(Cur, s) \cup ResignGameRequests(Cur, s) :
         LET o == handleRequest(Cur, r)
             m == socks[s].match
         IN (EndsGame(Cur, r, o)
               /\ matches[m].currentGame.id = 2 * matches[m].length - 1)
            => /\ o.st.matches[m].isOver
               /\ o.st.matches[m].currentGame.id = matches[m].currentGame.id

\* a match went the full distance: it is over in its (2L-1)-th game
C38_Witness ==
  \E m \in MatchIDs(Cur) :
    /\ matches[m].isOver
    /\ matches[m].currentGame.id = 2 * matches[m].length - 1

\* C39: for every match that is not over, the currentMatch of its host and,
\* once there is one, of its guest is the id of that match.
C39_ParticipantsPointAtMatch ==
  \A m \in MatchIDs(Cur) :
    ~matches[m].isOver =>
      \A p \in Participants(matches[m]) : players[p].currentMatch = matches[m].id

\* C40: in every reachable state a current game that has started belongs to
\* a match with a host and a guest, and its turnPlayer is one of the two.
C40_StartedGameHasBothSeats ==
  \A m \in MatchIDs(Cur) :
    matches[m].currentGame.hasStarted =>
      /\ matches[m].host # Null
      /\ matches[m].guest # Null
      /\ matches[m].currentGame.turnPlayer \in {matches[m].host, matches[m].guest}

====
